---- MODULE Spec2Model ----
(***************************************************************************)
(* BigLisp: the parser of biglisp-core (impl Parse for LispExpr), the       *)
(* macro lisp of biglisp-macros with its variable-capture wrapper, the     *)
(* expander of biglisp-core (LispExpr::to_rust and                         *)
(* LispExpr::expand_operation) as a function from expression trees to      *)
(* generated host code, and the evaluation of that generated code by the   *)
(* host (what the tests of the biglisp crate observe with assert_eq!).     *)
(*                                                                         *)
(* An expression tree (LispExpr) is a record tagged Symbol, Literal,       *)
(* Operator, List or Vector.  Generated code (the TokenStream a quote!     *)
(* template builds) is a record tagged by field k with the syntactic form  *)
(* the template has; a template's parentheses are kept as "paren" nodes.   *)
(***************************************************************************)
EXTENDS Integers, Sequences, FiniteSets, TLC

\* source:  what is handed to the program: a token stream (to the macro
\*          lisp) or an expression tree built by the caller (to to_rust)
\* expr:    the expression tree
\* capture: the identifier list of the variable-capture wrapper
\* pc:      "tokens", "parsed", "syntax_error", "aborted", "expanded",
\*          "evaluated"
\* code:    to_rust(expr)
\* output:  the code handed back to the host
\* value:   what the host's evaluation of output yields
VARIABLES source, expr, capture, pc, code, output, value

vars == <<source, expr, capture, pc, code, output, value>>

(***************************************************************************)
(* Bounds of the model.                                                    *)
(***************************************************************************)
MaxArgs == 4
MaxTerms == 3
MaxLit == 2
MaxBind == 4

(***************************************************************************)
(* LispExpr (biglisp-core/src/lib.rs:15-30).                               *)
(***************************************************************************)
Symbol(name) == [tag |-> "Symbol", name |-> name]
Literal(kind, val) == [tag |-> "Literal", kind |-> kind, val |-> val]
Operator(op) == [tag |-> "Operator", op |-> op]
List(exprs) == [tag |-> "List", exprs |-> exprs]
Vector(exprs) == [tag |-> "Vector", exprs |-> exprs]

IntLit(n) == Literal("int", n)
BoolLit(b) == Literal("bool", IF b THEN 1 ELSE 0)
StrLit(s) == [tag |-> "Literal", kind |-> "str", text |-> s]

IsSymbol(e) == e.tag = "Symbol"
IsVector(e) == e.tag = "Vector"

(***************************************************************************)
(* Generated code: one constructor per syntactic form a quote! template    *)
(* of to_rust / expand_operation produces.                                 *)
(***************************************************************************)
Ident(name) == [k |-> "ident", name |-> name]
LitCode(kind, val) == [k |-> "lit", kind |-> kind, val |-> val]
IntCode(n) == LitCode("int", n)
BoolCode(b) == LitCode("bool", IF b THEN 1 ELSE 0)
StrCode(s) == [k |-> "strlit", text |-> s]
UnitCode == [k |-> "unit"]
Paren(e) == [k |-> "paren", e |-> e]
Bin(op, l, r) == [k |-> "bin", op |-> op, l |-> l, r |-> r]
Unary(op, e) == [k |-> "unary", op |-> op, e |-> e]
Cast(e, ty) == [k |-> "cast", e |-> e, ty |-> ty]
CompileError(msg) == [k |-> "compile_error", msg |-> msg]
VecMacro(elems) == [k |-> "vec", elems |-> elems]
ArrayCode(elems) == [k |-> "array", elems |-> elems]
TupleCode(elems) == [k |-> "tuple", elems |-> elems]
Call(f, args) == [k |-> "call", f |-> f, args |-> args]
Method(recv, name, args) == [k |-> "method", recv |-> recv, name |-> name, args |-> args]
Index(recv, from) == [k |-> "index_from", recv |-> recv, from |-> from]
IfCode(c, t) == [k |-> "if", c |-> c, t |-> t]
IfElse(c, t, e) == [k |-> "ifelse", c |-> c, t |-> t, e |-> e]
LetStmt(name, init) == [k |-> "let", name |-> name, init |-> init, mut |-> FALSE]
LetMut(name, init) == [k |-> "let", name |-> name, init |-> init, mut |-> TRUE]
ExprStmt(e) == [k |-> "stmt", e |-> e]
Assign(name, e) == [k |-> "assign", name |-> name, e |-> e]
Block(stmts, tail) == [k |-> "block", stmts |-> stmts, tail |-> tail]
Closure(params, ty, body) == [k |-> "closure", params |-> params, ty |-> ty, body |-> body]
WhileCode(c, body) == [k |-> "while", c |-> c, body |-> body]
ForCode(var, count, body) == [k |-> "for", var |-> var, count |-> count, body |-> body]
MatchResult(scrut, okName, okBody, errBody) ==
    [k |-> "match", scrut |-> scrut, okName |-> okName, okBody |-> okBody, errBody |-> errBody]
PanicCode(msg) == [k |-> "panic", msg |-> msg]
PrintlnCode(arg) == [k |-> "println", arg |-> arg]

IsError(c) == c.k = "compile_error"

(***************************************************************************)
(* String helpers.  An operator's text is handled as the sequence of its   *)
(* characters so that str::replace is modelled by what it does.            *)
(***************************************************************************)
Chars(op) ==
    CASE op = "+" -> <<"+">>
      [] op = "-" -> <<"-">>
      [] op = "*" -> <<"*">>
      [] op = "/" -> <<"/">>
      [] op = "=" -> <<"=">>
      [] op = "<" -> <<"<">>
      [] op = ">" -> <<">">>
      [] op = "%" -> <<"%">>
      [] op = ">=" -> <<">", "=">>
      [] op = "<=" -> <<"<", "=">>
      [] op = "!=" -> <<"!", "=">>
      [] op = "with-vars" -> <<"with", "-", "vars">>
      [] OTHER -> <<op>>

RECURSIVE Join(_)
Join(cs) == IF cs = <<>> THEN "" ELSE Head(cs) \o Join(Tail(cs))

StartsWith(s, pat) ==
    /\ Len(pat) <= Len(s)
    /\ SubSeq(s, 1, Len(pat)) = pat

\* str::replace: every non-overlapping match of pat, left to right.
RECURSIVE Replace(_, _, _)
Replace(s, pat, to) ==
    IF s = <<>> THEN <<>>
    ELSE IF StartsWith(s, pat)
         THEN to \o Replace(SubSeq(s, Len(pat) + 1, Len(s)), pat, to)
         ELSE <<Head(s)>> \o Replace(Tail(s), pat, to)

\* The replace chain of to_rust's Operator arm, in the order it is written.
OperatorTagChars(op) ==
    LET s0 == Chars(op)
        s1 == Replace(s0, <<"+">>, <<"plus">>)
        s2 == Replace(s1, <<"-">>, <<"minus">>)
        s3 == Replace(s2, <<"*">>, <<"mul">>)
        s4 == Replace(s3, <<"/">>, <<"div">>)
        s5 == Replace(s4, <<"=">>, <<"eq">>)
        s6 == Replace(s5, <<"<">>, <<"lt">>)
        s7 == Replace(s6, <<">">>, <<"gt">>)
        s8 == Replace(s7, <<">", "=">>, <<"gte">>)
        s9 == Replace(s8, <<"<", "=">>, <<"lte">>)
        s10 == Replace(s9, <<"!", "=">>, <<"ne">>)
        s11 == Replace(s10, <<"%">>, <<"mod">>)
    IN  s11

OperatorTag(op) == Join(OperatorTagChars(op))

\* Ident::new(text, span) panics unless text is a legal identifier or a
\* keyword; the panic ends the expansion (see Aborts).
PunctChars == {"+", "-", "*", "/", "=", "<", ">", "%", "!"}

IsIdentText(cs) == cs # <<>> /\ \A i \in 1..Len(cs) : cs[i] \notin PunctChars

IdentPanic(text) == [k |-> "ident_panic", text |-> text]

IdentNew(cs) == IF IsIdentText(cs) THEN Ident(Join(cs)) ELSE IdentPanic(Join(cs))

(***************************************************************************)
(* The expander.  to_rust and expand_operation are mutually recursive;     *)
(* each arm of expand_operation's match is an operator of its own.         *)
(***************************************************************************)
Reverse(s) == [i \in 1..Len(s) |-> s[Len(s) + 1 - i]]

RECURSIVE to_rust(_)

ToRustAll(args) == [i \in 1..Len(args) |-> to_rust(args[i])]

\* Variant of FoldInfix: the operands of each step are swapped.
RECURSIVE FoldInfixSwapped(_, _, _)
FoldInfixSwapped(op, result, terms) ==
    IF terms = <<>> THEN result
    ELSE FoldInfixSwapped(op, Bin(op, Paren(Head(terms)), result), Tail(terms))

\* for term in terms { result = quote! { #result <op> (#term) } }
RECURSIVE FoldInfix(_, _, _)
FoldInfix(op, result, terms) ==
    IF terms = <<>> THEN result
    ELSE FoldInfix(op, Bin(op, result, Paren(Head(terms))), Tail(terms))

\* Variant of FoldBool: each term stands before the accumulated result.
RECURSIVE FoldBoolSwapped(_, _, _)
FoldBoolSwapped(op, result, terms) ==
    IF terms = <<>> THEN result
    ELSE FoldBoolSwapped(op, Bin(op, Paren(Head(terms)), Paren(result)), Tail(terms))

\* for term in terms { result = quote! { (#result) <op> (#term) } }
RECURSIVE FoldBool(_, _, _)
FoldBool(op, result, terms) ==
    IF terms = <<>> THEN result
    ELSE FoldBool(op, Bin(op, Paren(result), Paren(Head(terms))), Tail(terms))

\* for term in rest { result = quote! { std::cmp::<f>(#result, #term) } }
RECURSIVE FoldCall(_, _, _)
FoldCall(f, result, terms) ==
    IF terms = <<>> THEN result
    ELSE FoldCall(f, Call(Ident(f), <<result, Head(terms)>>), Tail(terms))

\* Variant of ExpandPlus: no pass-through for a single argument.
ExpandPlusFold(args) ==
    IF Len(args) = 0 THEN IntCode(0)
    ELSE FoldInfix("+", IntCode(0), ToRustAll(args))

ExpandPlus(args) ==
    IF Len(args) = 0 THEN IntCode(0)
    ELSE IF Len(args) = 1 THEN to_rust(args[1])
    ELSE FoldInfix("+", IntCode(0), ToRustAll(args))

ExpandMinus(args) ==
    IF Len(args) = 1 THEN Unary("-", Paren(to_rust(args[1])))
    ELSE IF Len(args) >= 2
         THEN FoldInfix("-", Paren(to_rust(args[1])), ToRustAll(Tail(args)))
         ELSE CompileError("Subtraction requires at least 1 argument")

ExpandMul(args) ==
    IF Len(args) = 0 THEN IntCode(1)
    ELSE IF Len(args) = 1 THEN to_rust(args[1])
    ELSE FoldInfix("*", IntCode(1), ToRustAll(args))

\* Variant of ExpandDiv: one argument is accepted.
ExpandDivLoose(args) ==
    IF Len(args) >= 1
    THEN FoldInfix("/", Paren(to_rust(args[1])), ToRustAll(Tail(args)))
    ELSE CompileError("Division requires at least 2 arguments")

ExpandDiv(args) ==
    IF Len(args) >= 2
    THEN FoldInfix("/", Paren(to_rust(args[1])), ToRustAll(Tail(args)))
    ELSE CompileError("Division requires at least 2 arguments")

\* Variant of ExpandBinary: arguments after the second are accepted.
ExpandBinaryLoose(tok, msg, args) ==
    IF Len(args) >= 2
    THEN Bin(tok, Paren(to_rust(args[1])), Paren(to_rust(args[2])))
    ELSE CompileError(msg)

\* The arms "=" | "eq", "<", ">", "gte", "lte", "ne", "%" | "modulo":
\* quote! { (#left) <tok> (#right) } when args.len() == 2.
ExpandBinary(tok, msg, args) ==
    IF Len(args) = 2
    THEN Bin(tok, Paren(to_rust(args[1])), Paren(to_rust(args[2])))
    ELSE CompileError(msg)

\* Variant of ExpandIf: the two branches of the full conditional change
\* places.
ExpandIfSwapped(args) ==
    CASE Len(args) = 2 ->
           IfCode(Paren(to_rust(args[1])), Block(<<>>, <<to_rust(args[2])>>))
      [] Len(args) = 3 ->
           IfElse(Paren(to_rust(args[1])),
                  Block(<<>>, <<to_rust(args[3])>>),
                  Block(<<>>, <<to_rust(args[2])>>))
      [] OTHER -> CompileError("If requires 2 or 3 arguments")

ExpandIf(args) ==
    CASE Len(args) = 2 ->
           IfCode(Paren(to_rust(args[1])), Block(<<>>, <<to_rust(args[2])>>))
      [] Len(args) = 3 ->
           IfElse(Paren(to_rust(args[1])),
                  Block(<<>>, <<to_rust(args[2])>>),
                  Block(<<>>, <<to_rust(args[3])>>))
      [] OTHER -> CompileError("If requires 2 or 3 arguments")

\* Variant of LetChunks: the lets are emitted last pair first.
RECURSIVE LetChunksReversed(_)
LetChunksReversed(bindings) ==
    IF bindings = <<>> THEN <<>>
    ELSE IF Len(bindings) = 1 THEN <<>>
    ELSE LetChunksReversed(SubSeq(bindings, 3, Len(bindings)))
         \o (IF IsSymbol(bindings[1])
             THEN <<LetStmt(bindings[1].name, to_rust(bindings[2]))>>
             ELSE <<>>)

\* bindings.chunks(2): chunk i holds the elements 2i-1 and 2i (the last
\* chunk one element when the length is odd).  A chunk yields a let only
\* when it has two elements and the first is a Symbol.
RECURSIVE LetChunks(_)
LetChunks(bindings) ==
    IF bindings = <<>> THEN <<>>
    ELSE IF Len(bindings) = 1 THEN <<>>
    ELSE (IF IsSymbol(bindings[1])
          THEN <<LetStmt(bindings[1].name, to_rust(bindings[2]))>>
          ELSE <<>>)
         \o LetChunks(SubSeq(bindings, 3, Len(bindings)))

ExpandLet(args) ==
    IF Len(args) >= 2
    THEN IF IsVector(args[1])
         THEN Block(LetChunks(args[1].exprs), <<to_rust(args[2])>>)
         ELSE CompileError("Let requires vector of bindings")
    ELSE CompileError("Let requires bindings and body")

\* filter_map over a Vector keeping the Symbols' names.
RECURSIVE SymbolNames(_)
SymbolNames(es) ==
    IF es = <<>> THEN <<>>
    ELSE (IF IsSymbol(Head(es)) THEN <<Head(es).name>> ELSE <<>>)
         \o SymbolNames(Tail(es))

\* Variant of ExpandDefn: the block binds the closure and yields nothing.
ExpandDefnUnit(args) ==
    IF Len(args) >= 3
    THEN IF IsSymbol(args[1]) /\ IsVector(args[2])
         THEN Block(<<LetStmt(args[1].name,
                              Closure(SymbolNames(args[2].exprs), "i32",
                                      to_rust(args[3])))>>,
                    <<>>)
         ELSE CompileError("Function definition format: (defn name [params] body)")
    ELSE CompileError("Function definition requires name, params, and body")

ExpandDefn(args) ==
    IF Len(args) >= 3
    THEN IF IsSymbol(args[1]) /\ IsVector(args[2])
         THEN Block(<<LetStmt(args[1].name,
                              Closure(SymbolNames(args[2].exprs), "i32",
                                      to_rust(args[3])))>>,
                    <<Ident(args[1].name)>>)
         ELSE CompileError("Function definition format: (defn name [params] body)")
    ELSE CompileError("Function definition requires name, params, and body")

\* Variant of ExpandCall: the arguments are passed last first.
ExpandCallReversed(args) ==
    IF Len(args) >= 1
    THEN Call(Paren(to_rust(args[1])), Reverse(ToRustAll(Tail(args))))
    ELSE CompileError("call requires at least a function")

ExpandCall(args) ==
    IF Len(args) >= 1
    THEN Call(Paren(to_rust(args[1])), ToRustAll(Tail(args)))
    ELSE CompileError("call requires at least a function")

\* Variant of TryBlock: the handler is what is tried and the body is what
\* handles.
TryBlockSwapped(try_body, handler) ==
    Block(<<LetStmt("result",
                    Call(Ident("std::panic::catch_unwind"),
                         <<Closure(<<>>, "", handler)>>))>>,
          <<MatchResult(Ident("result"), "val", Ident("val"), try_body)>>)

TryBlock(try_body, handler) ==
    Block(<<LetStmt("result",
                    Call(Ident("std::panic::catch_unwind"),
                         <<Closure(<<>>, "", try_body)>>))>>,
          <<MatchResult(Ident("result"), "val", Ident("val"), handler)>>)

ExpandTry(args) ==
    IF Len(args) >= 1
    THEN IF Len(args) >= 2
         THEN TryBlock(to_rust(args[1]), to_rust(args[2]))
         ELSE TryBlock(to_rust(args[1]), PanicCode("Unhandled error in try block"))
    ELSE CompileError("try requires at least a body")

\* quote! { { #(#statements);* } }: the separator follows every statement
\* but the last, which is the block's value.
ExpandDo(args) ==
    IF args = <<>> THEN Block(<<>>, <<>>)
    ELSE Block([i \in 1..(Len(args) - 1) |-> ExprStmt(to_rust(args[i]))],
               <<to_rust(args[Len(args)])>>)

RECURSIVE SelfLets(_)
SelfLets(names) ==
    IF names = <<>> THEN <<>>
    ELSE <<LetStmt(Head(names), Ident(Head(names)))>> \o SelfLets(Tail(names))

ExpandWithVars(args) ==
    IF Len(args) >= 2
    THEN IF IsVector(args[1])
         THEN Block(SelfLets(SymbolNames(args[1].exprs)), <<to_rust(args[2])>>)
         ELSE CompileError("with-vars requires vector of variable names")
    ELSE CompileError("with-vars requires variables and body")

ExpandWhile(args) ==
    IF Len(args) = 2
    THEN Block(<<LetMut("result", UnitCode),
                 WhileCode(Paren(to_rust(args[1])),
                           Block(<<Assign("result", to_rust(args[2]))>>, <<>>))>>,
               <<Ident("result")>>)
    ELSE CompileError("While requires condition and body")

ExpandDotimes(args) ==
    IF Len(args) = 3
    THEN IF IsSymbol(args[1])
         THEN Block(<<ForCode(args[1].name, Paren(to_rust(args[2])),
                              Block(<<LetStmt("_", to_rust(args[3]))>>, <<>>))>>,
                    <<UnitCode>>)
         ELSE CompileError("dotimes requires variable name")
    ELSE CompileError("dotimes requires var, count, and body")

ExpandAnd(args) ==
    IF Len(args) >= 2
    THEN FoldBool("&&", BoolCode(TRUE), ToRustAll(args))
    ELSE CompileError("And requires at least 2 arguments")

ExpandOr(args) ==
    IF Len(args) >= 2
    THEN FoldBool("||", BoolCode(FALSE), ToRustAll(args))
    ELSE CompileError("Or requires at least 2 arguments")

ExpandNot(args) ==
    IF Len(args) = 1
    THEN Unary("!", Paren(to_rust(args[1])))
    ELSE CompileError("Not requires exactly 1 argument")

ExpandFirst(args) ==
    IF Len(args) = 1
    THEN Method(Method(Method(Paren(to_rust(args[1])), "first", <<>>),
                       "copied", <<>>),
                "unwrap_or_default", <<>>)
    ELSE CompileError("First requires exactly 1 argument")

\* Variant of ExpandRest: the slice starts at the first element.
ExpandRestWhole(args) ==
    IF Len(args) = 1
    THEN Block(<<LetStmt("v", to_rust(args[1]))>>,
               <<IfElse(Bin(">", Method(Ident("v"), "len", <<>>), IntCode(1)),
                        Block(<<>>, <<Method(Index(Ident("v"), IntCode(0)),
                                             "to_vec", <<>>)>>),
                        Block(<<>>, <<VecMacro(<<>>)>>))>>)
    ELSE CompileError("Rest requires exactly 1 argument")

ExpandRest(args) ==
    IF Len(args) = 1
    THEN Block(<<LetStmt("v", to_rust(args[1]))>>,
               <<IfElse(Bin(">", Method(Ident("v"), "len", <<>>), IntCode(1)),
                        Block(<<>>, <<Method(Index(Ident("v"), IntCode(1)),
                                             "to_vec", <<>>)>>),
                        Block(<<>>, <<VecMacro(<<>>)>>))>>)
    ELSE CompileError("Rest requires exactly 1 argument")

ExpandCons(args) ==
    IF Len(args) = 2
    THEN Block(<<LetMut("result", VecMacro(<<Paren(to_rust(args[1]))>>)),
                 ExprStmt(Method(Ident("result"), "extend", <<to_rust(args[2])>>))>>,
               <<Ident("result")>>)
    ELSE CompileError("Cons requires exactly 2 arguments")

ExpandCount(args) ==
    IF Len(args) = 1
    THEN Method(Paren(to_rust(args[1])), "len", <<>>)
    ELSE CompileError("Count requires exactly 1 argument")

\* Variant of ExpandStr: the parts are joined with a blank between them.
ExpandStrSpaced(args) ==
    IF Len(args) >= 1
    THEN Method(ArrayCode([i \in 1..Len(args) |->
                              Method(Paren(to_rust(args[i])), "to_string", <<>>)]),
                "join", <<StrCode(" ")>>)
    ELSE Call(Ident("String::new"), <<>>)

ExpandStr(args) ==
    IF Len(args) >= 1
    THEN Method(ArrayCode([i \in 1..Len(args) |->
                              Method(Paren(to_rust(args[i])), "to_string", <<>>)]),
                "join", <<StrCode("")>>)
    ELSE Call(Ident("String::new"), <<>>)

\* The arms "min" and "max".
ExpandMinMax(f, msg, args) ==
    IF Len(args) >= 2
    THEN FoldCall(f, Paren(to_rust(args[1])), ToRustAll(Tail(args)))
    ELSE CompileError(msg)

ExpandAbs(args) ==
    IF Len(args) = 1
    THEN Method(Paren(Cast(Paren(to_rust(args[1])), "i32")), "abs", <<>>)
    ELSE CompileError("abs requires exactly 1 argument")

\* The arms "inc", "dec", "zero", "pos", "neg": quote! { (#arg) <tok> <n> }.
ExpandUnaryConst(tok, n, msg, args) ==
    IF Len(args) = 1
    THEN Bin(tok, Paren(to_rust(args[1])), IntCode(n))
    ELSE CompileError(msg)

\* The arms "even" and "odd": quote! { (#arg) % 2 <tok> 0 }.
ExpandParity(tok, msg, args) ==
    IF Len(args) = 1
    THEN Bin(tok, Bin("%", Paren(to_rust(args[1])), IntCode(2)), IntCode(0))
    ELSE CompileError(msg)

ExpandPrintln(args) ==
    IF Len(args) = 1
    THEN PrintlnCode(to_rust(args[1]))
    ELSE PrintlnCode(TupleCode(ToRustAll(args)))

\* Variant of ExpandDefault: the arguments are spliced in reverse order.
ExpandDefaultReversed(op_str, args) ==
    Call(IdentNew(Chars(op_str)), Reverse(ToRustAll(args)))

ExpandDefault(op_str, args) == Call(IdentNew(Chars(op_str)), ToRustAll(args))

expand_operation(op_str, args) ==
    CASE op_str = "+" -> ExpandPlus(args)
      [] op_str = "-" -> ExpandMinus(args)
      [] op_str = "*" -> ExpandMul(args)
      [] op_str = "/" -> ExpandDiv(args)
      [] op_str \in {"=", "eq"} ->
           ExpandBinary("==", "Equality requires exactly 2 arguments", args)
      [] op_str = "<" ->
           ExpandBinary("<", "Less-than requires exactly 2 arguments", args)
      [] op_str = ">" ->
           ExpandBinary(">", "Greater-than requires exactly 2 arguments", args)
      [] op_str = "gte" ->
           ExpandBinary(">=", "Greater-than-or-equal requires exactly 2 arguments", args)
      [] op_str = "lte" ->
           ExpandBinary("<=", "Less-than-or-equal requires exactly 2 arguments", args)
      [] op_str = "ne" ->
           ExpandBinary("!=", "Not-equal requires exactly 2 arguments", args)
      [] op_str \in {"%", "modulo"} ->
           ExpandBinary("%", "Modulo requires exactly 2 arguments", args)
      [] op_str = "if" -> ExpandIf(args)
      [] op_str = "let" -> ExpandLet(args)
      [] op_str = "defn" -> ExpandDefn(args)
      [] op_str = "call" -> ExpandCall(args)
      [] op_str = "try" -> ExpandTry(args)
      [] op_str = "do" -> ExpandDo(args)
      [] op_str = "with-vars" -> ExpandWithVars(args)
      [] op_str = "while" -> ExpandWhile(args)
      [] op_str = "dotimes" -> ExpandDotimes(args)
      [] op_str = "and" -> ExpandAnd(args)
      [] op_str = "or" -> ExpandOr(args)
      [] op_str = "not" -> ExpandNot(args)
      [] op_str = "first" -> ExpandFirst(args)
      [] op_str = "rest" -> ExpandRest(args)
      [] op_str = "cons" -> ExpandCons(args)
      [] op_str = "count" -> ExpandCount(args)
      [] op_str = "str" -> ExpandStr(args)
      [] op_str = "min" ->
           ExpandMinMax("std::cmp::min", "min requires at least 2 arguments", args)
      [] op_str = "max" ->
           ExpandMinMax("std::cmp::max", "max requires at least 2 arguments", args)
      [] op_str = "abs" -> ExpandAbs(args)
      [] op_str = "inc" ->
           ExpandUnaryConst("+", 1, "inc requires exactly 1 argument", args)
      [] op_str = "dec" ->
           ExpandUnaryConst("-", 1, "dec requires exactly 1 argument", args)
      [] op_str = "zero" ->
           ExpandUnaryConst("==", 0, "zero requires exactly 1 argument", args)
      [] op_str = "pos" ->
           ExpandUnaryConst(">", 0, "pos requires exactly 1 argument", args)
      [] op_str = "neg" ->
           ExpandUnaryConst("<", 0, "neg requires exactly 1 argument", args)
      [] op_str = "even" ->
           ExpandParity("==", "even requires exactly 1 argument", args)
      [] op_str = "odd" ->
           ExpandParity("!=", "odd requires exactly 1 argument", args)
      [] op_str = "println" -> ExpandPrintln(args)
      [] OTHER -> ExpandDefault(op_str, args)

to_rust(e) ==
    CASE e.tag = "Symbol" -> Ident(e.name)
      [] e.tag = "Literal" ->
           IF e.kind = "str" THEN StrCode(e.text) ELSE LitCode(e.kind, e.val)
      [] e.tag = "Operator" -> IdentNew(<<"op_">> \o OperatorTagChars(e.op))
      [] e.tag = "Vector" -> VecMacro(ToRustAll(e.exprs))
      [] e.tag = "List" ->
           IF e.exprs = <<>> THEN UnitCode
           ELSE LET first == e.exprs[1]
                    rest == Tail(e.exprs)
                IN  CASE first.tag = "Symbol" -> expand_operation(first.name, rest)
                      [] first.tag = "Operator" -> expand_operation(first.op, rest)
                      [] OTHER -> Call(to_rust(first), ToRustAll(rest))

(***************************************************************************)
(* The sub-fragments of a piece of generated code, in source order.        *)
(***************************************************************************)
Children(c) ==
    CASE c.k \in {"paren", "unary", "cast", "stmt", "assign"} -> <<c.e>>
      [] c.k = "bin" -> <<c.l, c.r>>
      [] c.k \in {"vec", "array", "tuple"} -> c.elems
      [] c.k = "call" -> <<c.f>> \o c.args
      [] c.k = "method" -> <<c.recv>> \o c.args
      [] c.k = "index_from" -> <<c.recv, c.from>>
      [] c.k = "if" -> <<c.c, c.t>>
      [] c.k = "ifelse" -> <<c.c, c.t, c.e>>
      [] c.k = "let" -> <<c.init>>
      [] c.k = "block" -> c.stmts \o c.tail
      [] c.k = "closure" -> <<c.body>>
      [] c.k = "while" -> <<c.c, c.body>>
      [] c.k = "for" -> <<c.count, c.body>>
      [] c.k = "match" -> <<c.scrut, c.okBody, c.errBody>>
      [] c.k = "println" -> <<c.arg>>
      [] OTHER -> <<>>

\* A compile_error! invocation anywhere in the generated code fails the
\* host compilation, whether or not the code around it would be evaluated.
RECURSIVE HasCompileError(_)
HasCompileError(c) ==
    \/ IsError(c)
    \/ \E i \in 1..Len(Children(c)) : HasCompileError(Children(c)[i])

\* A panic of Ident::new anywhere in the expansion unwinds out of to_rust:
\* the expander returns no code at all.
RECURSIVE Aborts(_)
Aborts(c) ==
    \/ c.k = "ident_panic"
    \/ \E i \in 1..Len(Children(c)) : Aborts(Children(c)[i])

(***************************************************************************)
(* The host's evaluation of generated code: what a test observes when it   *)
(* compiles and runs lisp!(...).  Values are tagged records; an            *)
(* environment is the sequence of the bindings in scope, innermost last.   *)
(***************************************************************************)
IntV(n) == [t |-> "int", n |-> n]
BoolV(b) == [t |-> "bool", b |-> b]
StrV(s) == [t |-> "str", s |-> s]
UnitV == [t |-> "unit"]
VecV(elems) == [t |-> "vec", elems |-> elems]
ClosureV(params, body, env) ==
    [t |-> "closure", params |-> params, body |-> body, env |-> env]
\* why: "compile_error" (compile_error! reached), "unbound" (a name that
\* resolves to no binding), "type" (rejected by the host's type checker),
\* "panic" (abnormal termination at run time), "not_evaluated" (a form
\* whose evaluation this model does not follow).
ErrV(why) == [t |-> "err", why |-> why]
\* A float, held as its number of tenths.
FloatV(n) == [t |-> "float", n |-> n]
TupleV(elems) == [t |-> "tuple", elems |-> elems]
\* std::thread::Result: Ok(v), or Err(_) holding the payload of a panic.
ResultV(ok, v) == [t |-> "result", ok |-> ok, v |-> v]

IsErr(v) == v.t = "err"
IsInt(v) == v.t = "int"

Bind(env, name, v) == Append(env, [name |-> name, val |-> v])

RECURSIVE Lookup(_, _)
Lookup(env, name) ==
    IF env = <<>> THEN ErrV("unbound")
    ELSE IF env[Len(env)].name = name THEN env[Len(env)].val
    ELSE Lookup(SubSeq(env, 1, Len(env) - 1), name)

RECURSIVE BindAll(_, _, _)
BindAll(env, names, vals) ==
    IF names = <<>> THEN env
    ELSE BindAll(Bind(env, Head(names), Head(vals)), Tail(names), Tail(vals))

Abs(n) == IF n < 0 THEN -n ELSE n

\* Integer division of the host: truncation toward zero.
TruncDiv(a, b) ==
    IF (a >= 0) = (b > 0) THEN Abs(a) \div Abs(b) ELSE -(Abs(a) \div Abs(b))

TruncRem(a, b) == a - b * TruncDiv(a, b)

Min2(a, b) == IF b < a THEN b ELSE a
Max2(a, b) == IF b >= a THEN b ELSE a

ApplyArith(op, a, b) ==
    CASE op = "+" -> IntV(a + b)
      [] op = "-" -> IntV(a - b)
      [] op = "*" -> IntV(a * b)
      [] op = "/" -> IF b = 0 THEN ErrV("panic") ELSE IntV(TruncDiv(a, b))
      [] op = "%" -> IF b = 0 THEN ErrV("panic") ELSE IntV(TruncRem(a, b))

ApplyCompare(op, a, b) ==
    CASE op = "<" -> BoolV(a < b)
      [] op = ">" -> BoolV(a > b)
      [] op = "<=" -> BoolV(a <= b)
      [] op = ">=" -> BoolV(a >= b)

ApplyBin(op, l, r) ==
    CASE l.t = "float" /\ r.t = "float" -> ErrV("not_evaluated")
      [] op \in {"+", "-", "*", "/", "%"} ->
           IF IsInt(l) /\ IsInt(r) THEN ApplyArith(op, l.n, r.n) ELSE ErrV("type")
      [] op \in {"<", ">", "<=", ">="} ->
           IF IsInt(l) /\ IsInt(r) THEN ApplyCompare(op, l.n, r.n) ELSE ErrV("type")
      [] op \in {"==", "!="} ->
           IF l.t # r.t \/ l.t = "closure" THEN ErrV("type")
           ELSE BoolV((l = r) = (op = "=="))
      [] OTHER -> ErrV("type")

\* Option<T>: Some(v) or None.
OptionV(some, v) == [t |-> "option", some |-> some, v |-> v]

Digits == <<"0", "1", "2", "3", "4", "5", "6", "7", "8", "9">>

RECURSIVE NatText(_)
NatText(n) ==
    IF n < Len(Digits) THEN Digits[n + 1]
    ELSE NatText(n \div Len(Digits)) \o Digits[(n % Len(Digits)) + 1]

\* Display of the host: to_string() of an integer, a string or a boolean.
\* A vector, the unit value and a closure have no Display.
ToStringV(v) ==
    CASE v.t = "int" -> StrV(IF v.n < 0 THEN "-" \o NatText(-v.n) ELSE NatText(v.n))
      [] v.t = "str" -> v
      [] v.t = "bool" -> StrV(IF v.b THEN "true" ELSE "false")
      [] v.t = "float" -> ErrV("not_evaluated")
      [] OTHER -> ErrV("type")

RECURSIVE JoinV(_, _)
JoinV(parts, sep) ==
    IF parts = <<>> THEN ""
    ELSE IF Len(parts) = 1 THEN parts[1].s
    ELSE parts[1].s \o sep \o JoinV(Tail(parts), sep)

\* Assignment to a mutable local: the innermost binding of name takes v.
RECURSIVE Rebind(_, _, _)
Rebind(env, name, v) ==
    IF env = <<>> THEN <<>>
    ELSE IF env[Len(env)].name = name
    THEN Bind(SubSeq(env, 1, Len(env) - 1), name, v)
    ELSE Append(Rebind(SubSeq(env, 1, Len(env) - 1), name, v), env[Len(env)])

\* Whether the fragment c uses the binding of name that is in scope where c
\* stands: a use under a let, a parameter, a match arm or a loop variable
\* of the same name is a use of that inner binding instead.
RECURSIVE FreeIn(_, _)
RECURSIVE FreeInBlock(_, _, _)
FreeInBlock(stmts, tail, name) ==
    IF stmts = <<>> THEN tail # <<>> /\ FreeIn(tail[1], name)
    ELSE LET s == Head(stmts)
         IN  IF s.k = "let"
             THEN \/ FreeIn(s.init, name)
                  \/ s.name # name /\ FreeInBlock(Tail(stmts), tail, name)
             ELSE FreeIn(s, name) \/ FreeInBlock(Tail(stmts), tail, name)

FreeIn(c, name) ==
    CASE c.k = "ident" -> c.name = name
      [] c.k = "block" -> FreeInBlock(c.stmts, c.tail, name)
      [] c.k = "closure" ->
           (\A i \in 1..Len(c.params) : c.params[i] # name) /\ FreeIn(c.body, name)
      [] c.k = "match" ->
           \/ FreeIn(c.scrut, name)
           \/ c.okName # name /\ FreeIn(c.okBody, name)
           \/ FreeIn(c.errBody, name)
      [] c.k = "for" -> FreeIn(c.count, name) \/ (c.var # name /\ FreeIn(c.body, name))
      [] c.k = "assign" -> c.name = name \/ FreeIn(c.e, name)
      [] OTHER -> \E i \in 1..Len(Children(c)) : FreeIn(Children(c)[i], name)

\* The outcome of a statement: the scope after it, or its failure.
Done(env) == [ok |-> TRUE, env |-> env]
Fail(err) == [ok |-> FALSE, err |-> err]

\* A failure the host reports when it compiles the code, whether or not
\* the code would run.
IsStatic(err) == err.why \in {"compile_error", "unbound", "type", "borrow"}

RECURSIVE Eval(_, _)
RECURSIVE EvalAll(_, _)
RECURSIVE EvalBlock(_, _, _)
RECURSIVE Exec(_, _)
RECURSIVE ExecBody(_, _)
RECURSIVE ExecWhile(_, _)
RECURSIVE ExecFor(_, _, _, _)

\* The values of the fragments cs, left to right; the first failure if one
\* of them fails.
EvalAll(cs, env) ==
    IF cs = <<>> THEN VecV(<<>>)
    ELSE LET v == Eval(Head(cs), env)
         IN  IF IsErr(v) THEN v
             ELSE LET vs == EvalAll(Tail(cs), env)
                  IN  IF IsErr(vs) THEN vs ELSE VecV(<<v>> \o vs.elems)

\* A block whose value is not used (a loop body): its bindings end with
\* it, assignments to outer locals remain.
ExecBody(b, env) ==
    IF b.stmts = <<>>
    THEN IF b.tail = <<>> THEN Done(env)
         ELSE LET v == Eval(b.tail[1], env)
              IN  IF IsErr(v) THEN Fail(v) ELSE Done(env)
    ELSE LET r == Exec(Head(b.stmts), env)
         IN  IF ~r.ok THEN r
             ELSE LET q == ExecBody(Block(Tail(b.stmts), b.tail), r.env)
                  IN  IF ~q.ok THEN q ELSE Done(SubSeq(q.env, 1, Len(env)))

\* while (c) { body }: the condition is evaluated before every iteration.
\* The body is type-checked even if it never runs.  An iteration that
\* leaves every local as it found it is followed by the same iteration
\* again: the loop does not end.
ExecWhile(c, env) ==
    LET b == Eval(c.c, env)
    IN  IF IsErr(b) THEN Fail(b)
        ELSE IF b.t # "bool" THEN Fail(ErrV("type"))
        ELSE LET r == ExecBody(c.body, env)
             IN  IF ~b.b
                 THEN IF ~r.ok /\ IsStatic(r.err) THEN r ELSE Done(env)
                 ELSE IF ~r.ok THEN r
                 ELSE IF r.env = env THEN Fail(ErrV("diverges"))
                 ELSE ExecWhile(c, r.env)

\* for var in i..n { body }; an empty range still has its body type-checked.
ExecFor(c, i, n, env) ==
    LET r == ExecBody(c.body, Bind(env, c.var, IntV(i)))
    IN  IF i >= n
        THEN IF i = 0 /\ ~r.ok /\ IsStatic(r.err) THEN r ELSE Done(env)
        ELSE IF ~r.ok THEN r
        ELSE ExecFor(c, i + 1, n, SubSeq(r.env, 1, Len(env)))

Exec(s, env) ==
    CASE s.k = "let" ->
           LET v == Eval(s.init, env)
           IN  IF IsErr(v) THEN Fail(v) ELSE Done(Bind(env, s.name, v))
      [] s.k = "assign" ->
           LET v == Eval(s.e, env)
               old == Lookup(env, s.name)
           IN  IF IsErr(v) THEN Fail(v)
               ELSE IF IsErr(old) THEN Fail(old)
               ELSE IF old.t # v.t THEN Fail(ErrV("type"))
               ELSE Done(Rebind(env, s.name, v))
      [] s.k = "while" -> ExecWhile(s, env)
      [] s.k = "for" ->
           LET n == Eval(s.count, env)
           IN  IF IsErr(n) THEN Fail(n)
               ELSE IF ~IsInt(n) THEN Fail(ErrV("type"))
               ELSE ExecFor(s, 0, n.n, env)
      [] s.k = "stmt" ->
           IF s.e.k = "method" /\ s.e.name = "extend" /\ s.e.recv.k = "ident"
           THEN \* recv.extend(iter): recv is borrowed mutably for the call,
                \* so iter may not move it.
                LET old == Lookup(env, s.e.recv.name)
                    more == Eval(s.e.args[1], env)
                IN  IF IsErr(old) THEN Fail(old)
                    ELSE IF IsErr(more) /\ IsStatic(more) THEN Fail(more)
                    ELSE IF FreeIn(s.e.args[1], s.e.recv.name) THEN Fail(ErrV("borrow"))
                    ELSE IF IsErr(more) THEN Fail(more)
                    ELSE IF old.t # "vec" \/ more.t # "vec" THEN Fail(ErrV("type"))
                    ELSE IF \E i \in 1..Len(more.elems) : more.elems[i].t # old.elems[1].t
                         THEN Fail(ErrV("type"))
                    ELSE Done(Rebind(env, s.e.recv.name, VecV(old.elems \o more.elems)))
           ELSE LET v == Eval(s.e, env)
                IN  IF IsErr(v) THEN Fail(v) ELSE Done(env)
      [] OTHER -> Fail(ErrV("not_evaluated"))

EvalBlock(stmts, tail, env) ==
    IF stmts = <<>>
    THEN IF tail = <<>> THEN UnitV ELSE Eval(tail[1], env)
    ELSE LET r == Exec(Head(stmts), env)
         IN  IF ~r.ok THEN r.err ELSE EvalBlock(Tail(stmts), tail, r.env)

\* A method call of the generated code on the value r of its receiver.
EvalMethod(c, r, env) ==
    CASE c.name = "first" ->
           IF r.t # "vec" THEN ErrV("type")
           ELSE IF r.elems = <<>> THEN OptionV(FALSE, UnitV)
           ELSE OptionV(TRUE, r.elems[1])
      [] c.name = "copied" ->
           IF r.t # "option" THEN ErrV("type")
           ELSE IF r.some /\ r.v.t \in {"vec", "closure"} THEN ErrV("type")
           ELSE r
      [] c.name = "unwrap_or_default" ->
           IF r.t # "option" THEN ErrV("type")
           ELSE IF r.some THEN r.v
           ELSE IntV(0)
      [] c.name = "len" -> IF r.t # "vec" THEN ErrV("type") ELSE IntV(Len(r.elems))
      [] c.name = "to_vec" -> IF r.t # "vec" THEN ErrV("type") ELSE r
      [] c.name = "abs" -> IF IsInt(r) THEN IntV(Abs(r.n)) ELSE ErrV("type")
      [] c.name = "to_string" -> ToStringV(r)
      [] c.name = "join" ->
           LET sep == Eval(c.args[1], env)
           IN  IF r.t # "vec" \/ sep.t # "str" THEN ErrV("type")
               ELSE StrV(JoinV(r.elems, sep.s))
      [] OTHER -> ErrV("not_evaluated")

\* A call binds tighter than a prefix or infix operator: when the callee
\* fragment is an unparenthesised operator expression the argument list
\* applies to its last operand.
EvalCall(c, env) ==
    IF c.f.k = "bin"
    THEN Eval(Bin(c.f.op, c.f.l, Call(c.f.r, c.args)), env)
    ELSE IF c.f.k = "unary"
    THEN Eval(Unary(c.f.op, Call(c.f.e, c.args)), env)
    ELSE IF c.f.k = "ident" /\ c.f.name = "std::panic::catch_unwind"
    THEN LET f == Eval(c.args[1], env)
         IN  IF IsErr(f) THEN f
             ELSE LET r == Eval(f.body, f.env)
                  IN  IF ~IsErr(r) THEN ResultV(TRUE, r)
                      ELSE IF r.why = "panic" THEN ResultV(FALSE, UnitV)
                      ELSE r
    ELSE IF c.f.k = "ident" /\ c.f.name = "String::new"
    THEN StrV("")
    ELSE IF c.f.k = "ident" /\ c.f.name \in {"std::cmp::min", "std::cmp::max"}
    THEN LET vs == EvalAll(c.args, env)
         IN  IF IsErr(vs) THEN vs
             ELSE IF Len(vs.elems) # 2 \/ ~IsInt(vs.elems[1]) \/ ~IsInt(vs.elems[2])
                  THEN ErrV("type")
             ELSE IF c.f.name = "std::cmp::min"
                  THEN IntV(Min2(vs.elems[1].n, vs.elems[2].n))
                  ELSE IntV(Max2(vs.elems[1].n, vs.elems[2].n))
    ELSE LET f == Eval(c.f, env)
         IN  IF IsErr(f) THEN f
             ELSE IF f.t # "closure" THEN ErrV("type")
             ELSE LET vs == EvalAll(c.args, env)
                  IN  IF IsErr(vs) THEN vs
                      ELSE IF Len(vs.elems) # Len(f.params)
                              \/ \E i \in 1..Len(vs.elems) : ~IsInt(vs.elems[i])
                           THEN ErrV("type")
                      ELSE LET r == Eval(f.body, BindAll(f.env, f.params, vs.elems))
                           IN  IF IsErr(r) \/ IsInt(r) THEN r ELSE ErrV("type")

Eval(c, env) ==
    CASE c.k = "ident" -> Lookup(env, c.name)
      [] c.k = "lit" ->
           IF c.kind = "int" THEN IntV(c.val)
           ELSE IF c.kind = "float" THEN FloatV(c.val)
           ELSE BoolV(c.val = 1)
      [] c.k = "strlit" -> StrV(c.text)
      [] c.k = "unit" -> UnitV
      [] c.k = "paren" -> Eval(c.e, env)
      [] c.k = "compile_error" -> ErrV("compile_error")
      [] c.k = "bin" ->
           LET l == Eval(c.l, env)
           IN  IF IsErr(l) THEN l
               ELSE IF c.op \in {"&&", "||"}
               THEN IF l.t # "bool" THEN ErrV("type")
                    ELSE IF l.b = (c.op = "||") THEN l
                    ELSE LET r == Eval(c.r, env)
                         IN  IF IsErr(r) THEN r
                             ELSE IF r.t # "bool" THEN ErrV("type") ELSE r
               ELSE LET r == Eval(c.r, env)
                    IN  IF IsErr(r) THEN r ELSE ApplyBin(c.op, l, r)
      [] c.k = "unary" ->
           LET v == Eval(c.e, env)
           IN  IF IsErr(v) THEN v
               ELSE IF c.op = "-" /\ IsInt(v) THEN IntV(-v.n)
               ELSE IF c.op = "!" /\ v.t = "bool" THEN BoolV(~v.b)
               ELSE ErrV("type")
      [] c.k = "cast" ->
           LET v == Eval(c.e, env)
           IN  IF IsErr(v) \/ IsInt(v) THEN v ELSE ErrV("type")
      [] c.k = "vec" ->
           LET vs == EvalAll(c.elems, env)
           IN  IF IsErr(vs) THEN vs
               ELSE IF \E i \in 1..Len(vs.elems) : vs.elems[i].t # vs.elems[1].t
                    THEN ErrV("type")
               ELSE vs
      [] c.k = "array" ->
           LET vs == EvalAll(c.elems, env)
           IN  IF IsErr(vs) THEN vs
               ELSE IF \E i \in 1..Len(vs.elems) : vs.elems[i].t # vs.elems[1].t
                    THEN ErrV("type")
               ELSE vs
      [] c.k = "method" ->
           LET r == Eval(c.recv, env)
           IN  IF IsErr(r) THEN r ELSE EvalMethod(c, r, env)
      [] c.k = "index_from" ->
           LET r == Eval(c.recv, env)
               f == Eval(c.from, env)
           IN  IF IsErr(r) THEN r
               ELSE IF IsErr(f) THEN f
               ELSE IF r.t # "vec" \/ ~IsInt(f) THEN ErrV("type")
               ELSE IF f.n > Len(r.elems) THEN ErrV("panic")
               ELSE VecV(SubSeq(r.elems, f.n + 1, Len(r.elems)))
      [] c.k = "call" -> EvalCall(c, env)
      [] c.k = "ifelse" ->
           LET b == Eval(c.c, env)
           IN  IF IsErr(b) THEN b
               ELSE IF b.t # "bool" THEN ErrV("type")
               ELSE LET taken == IF b.b THEN Eval(c.t, env) ELSE Eval(c.e, env)
                        other == IF b.b THEN Eval(c.e, env) ELSE Eval(c.t, env)
                    IN  \* the branch not taken is compiled too, and both
                        \* branches have one type
                        IF IsErr(taken) /\ IsStatic(taken) THEN taken
                        ELSE IF IsErr(other) THEN IF IsStatic(other) THEN other ELSE taken
                        ELSE IF ~IsErr(taken) /\ taken.t # other.t THEN ErrV("type")
                        ELSE taken
      [] c.k = "if" ->
           LET b == Eval(c.c, env)
           IN  IF IsErr(b) THEN b
               ELSE IF b.t # "bool" THEN ErrV("type")
               ELSE LET v == Eval(c.t, env)
                    IN  \* without else the block must have the unit type,
                        \* whether or not it runs
                        IF IsErr(v) THEN IF IsStatic(v) \/ b.b THEN v ELSE UnitV
                        ELSE IF v.t # "unit" THEN ErrV("type") ELSE UnitV
      [] c.k = "block" -> EvalBlock(c.stmts, c.tail, env)
      [] c.k = "closure" -> ClosureV(c.params, c.body, env)
      [] c.k = "match" ->
           LET r == Eval(c.scrut, env)
           IN  IF IsErr(r) THEN r
               ELSE IF r.t # "result" THEN ErrV("type")
               ELSE IF r.ok THEN Eval(c.okBody, Bind(env, c.okName, r.v))
               ELSE LET h == Eval(c.errBody, env)
                    IN  \* both arms have the type of the Ok payload, which
                        \* no Result holding that payload has
                        IF h.t = "result" THEN ErrV("type") ELSE h
      [] c.k = "panic" -> ErrV("panic")
      [] c.k = "tuple" ->
           LET vs == EvalAll(c.elems, env)
           IN  IF IsErr(vs) THEN vs
               ELSE IF vs.elems = <<>> THEN UnitV ELSE TupleV(vs.elems)
      [] c.k = "println" ->
           LET v == Eval(c.arg, env)
           IN  IF IsErr(v) THEN v
               ELSE IF v.t = "closure" THEN ErrV("type") ELSE UnitV
      [] OTHER -> ErrV("not_evaluated")

\* The enclosing scope of the tests: x = 10 and y = 5 are bound.
HostScope == Bind(Bind(<<>>, "x", IntV(10)), "y", IntV(5))

RunHost(c) == IF HasCompileError(c) THEN ErrV("compile_error") ELSE Eval(c, HostScope)

(***************************************************************************)
(* The input of the macro: a stream of token trees, as the host's lexer    *)
(* hands it over.  A punctuation character is one token; joint tells       *)
(* whether the next character of the source follows it immediately (the    *)
(* source text >= is the tokens > (joint) and = ).                         *)
(***************************************************************************)
\* The operator tokens of the parser, in the order it tries them.
OperatorTokens == {"+", "-", "*", "/", "=", "<", ">", "%"}

TIdent(text) == [tt |-> "Ident", text |-> text]
TLit(kind, val) == [tt |-> "Literal", kind |-> kind, val |-> val]
TPunct(ch, joint) == [tt |-> "Punct", ch |-> ch, joint |-> joint]
TGroup(delim, stream) == [tt |-> "Group", delim |-> delim, stream |-> stream]

\* The words syn's Ident refuses (they are keywords of the host).
HostKeywords ==
    {"_", "abstract", "as", "async", "await", "become", "box", "break",
     "const", "continue", "crate", "do", "dyn", "else", "enum", "extern",
     "false", "final", "fn", "for", "if", "impl", "in", "let", "loop",
     "macro", "match", "mod", "move", "mut", "override", "priv", "pub",
     "ref", "return", "Self", "self", "static", "struct", "super", "trait",
     "true", "try", "type", "typeof", "unsafe", "unsized", "use", "virtual",
     "where", "while", "yield"}

\* The keywords the parser turns into Symbols, in the order it tries them.
SymbolKeywords == {"if", "let", "do", "while", "try"}

\* input.peek(Paren) / input.peek(Bracket)
PeekGroup(input, delim) ==
    /\ input # <<>>
    /\ input[1].tt = "Group"
    /\ input[1].delim = delim

\* input.peek(Token![c]) for a one-character token: the character is
\* compared, the spacing of the token is not.
PeekPunct(input, ch) ==
    /\ input # <<>>
    /\ input[1].tt = "Punct"
    /\ input[1].ch = ch

\* peek of a keyword token
PeekKeyword(input, kw) ==
    /\ input # <<>>
    /\ input[1].tt = "Ident"
    /\ input[1].text = kw

\* input.peek(Ident): an identifier that is not a keyword of the host.
PeekIdent(input) ==
    /\ input # <<>>
    /\ input[1].tt = "Ident"
    /\ input[1].text \notin HostKeywords

\* A minus sign with a numeric literal after it: syn reads the two tokens
\* as one negative literal.
PeekNegativeLit(input) ==
    /\ Len(input) >= 2
    /\ PeekPunct(input, "-")
    /\ input[2].tt = "Literal"
    /\ input[2].kind \in {"int", "float"}

\* input.peek(Lit): a literal token, the words true and false, or a
\* negative literal.
PeekLit(input) ==
    /\ input # <<>>
    /\ \/ input[1].tt = "Literal"
       \/ PeekKeyword(input, "true")
       \/ PeekKeyword(input, "false")
       \/ PeekNegativeLit(input)

ParseOk(e, rest) == [ok |-> TRUE, expr |-> e, rest |-> rest]
ParseErr(msg) == [ok |-> FALSE, msg |-> msg]

\* input.parse::<Lit>() where PeekLit holds
ParseLit(input) ==
    IF input[1].tt = "Ident"
    THEN ParseOk(BoolLit(input[1].text = "true"), Tail(input))
    ELSE IF input[1].tt = "Punct"
    THEN ParseOk(Literal(input[2].kind, -input[2].val), Tail(Tail(input)))
    ELSE IF input[1].kind = "str"
    THEN ParseOk(StrLit(input[1].val), Tail(input))
    ELSE ParseOk(Literal(input[1].kind, input[1].val), Tail(input))

RECURSIVE parse(_)
RECURSIVE ParseContent(_)

\* Variant of ParseContent: a child that fails to parse ends the list,
\* which is returned as far as it was built.
ParseContentPartial(content) ==
    IF content = <<>> THEN [ok |-> TRUE, exprs |-> <<>>]
    ELSE LET r == parse(content)
         IN  IF ~r.ok THEN [ok |-> TRUE, exprs |-> <<>>]
             ELSE LET more == ParseContent(r.rest)
                  IN  [ok |-> TRUE, exprs |-> <<r.expr>> \o more.exprs]

\* while !content.is_empty() { exprs.push(content.parse::<LispExpr>()?); }
ParseContent(content) ==
    IF content = <<>> THEN [ok |-> TRUE, exprs |-> <<>>]
    ELSE LET r == parse(content)
         IN  IF ~r.ok THEN r
             ELSE LET more == ParseContent(r.rest)
                  IN  IF ~more.ok THEN more
                      ELSE [ok |-> TRUE, exprs |-> <<r.expr>> \o more.exprs]

\* Variant of parse: the literal alternative is tried before the operator
\* tokens.
ParseLitFirst(input) ==
    IF PeekGroup(input, "(")
    THEN LET c == ParseContent(input[1].stream)
         IN  IF c.ok THEN ParseOk(List(c.exprs), Tail(input)) ELSE c
    ELSE IF PeekGroup(input, "[")
    THEN LET c == ParseContent(input[1].stream)
         IN  IF c.ok THEN ParseOk(Vector(c.exprs), Tail(input)) ELSE c
    ELSE IF PeekLit(input)
    THEN ParseLit(input)
    ELSE IF \E o \in OperatorTokens : PeekPunct(input, o)
    THEN ParseOk(Operator(input[1].ch), Tail(input))
    ELSE IF \E kw \in SymbolKeywords : PeekKeyword(input, kw)
    THEN ParseOk(Symbol(input[1].text), Tail(input))
    ELSE IF PeekIdent(input)
    THEN ParseOk(Symbol(input[1].text), Tail(input))
    ELSE ParseErr("expected one of: if, let, do, while, try, identifier")

\* impl Parse for LispExpr: the first alternative that matches wins.
parse(input) ==
    IF PeekGroup(input, "(")
    THEN LET c == ParseContent(input[1].stream)
         IN  IF c.ok THEN ParseOk(List(c.exprs), Tail(input)) ELSE c
    ELSE IF PeekGroup(input, "[")
    THEN LET c == ParseContent(input[1].stream)
         IN  IF c.ok THEN ParseOk(Vector(c.exprs), Tail(input)) ELSE c
    ELSE IF \E o \in OperatorTokens : PeekPunct(input, o)
    THEN ParseOk(Operator(input[1].ch), Tail(input))
    ELSE IF PeekLit(input)
    THEN ParseLit(input)
    ELSE IF \E kw \in SymbolKeywords : PeekKeyword(input, kw)
    THEN ParseOk(Symbol(input[1].text), Tail(input))
    ELSE IF PeekIdent(input)
    THEN ParseOk(Symbol(input[1].text), Tail(input))
    ELSE ParseErr("expected one of: if, let, do, while, try, identifier")

\* syn::parse::<T>: the parse of T must leave nothing of the input.
ParseComplete(r) ==
    IF r.ok /\ r.rest # <<>> THEN ParseErr("unexpected token") ELSE r

\* The identifier list of LispWithVars: identifiers separated by commas.
RECURSIVE ParseVars(_)
ParseVars(content) ==
    IF content = <<>> THEN [ok |-> TRUE, vars |-> <<>>]
    ELSE IF ~PeekIdent(content) THEN ParseErr("expected identifier")
    ELSE IF Tail(content) = <<>> THEN [ok |-> TRUE, vars |-> <<content[1].text>>]
    ELSE IF ~PeekPunct(Tail(content), ",") THEN ParseErr("expected ,")
    ELSE LET more == ParseVars(Tail(Tail(content)))
         IN  IF ~more.ok THEN more
             ELSE [ok |-> TRUE, vars |-> <<content[1].text>> \o more.vars]

\* impl Parse for LispWithVars
ParseLispWithVars(input) ==
    IF ~PeekGroup(input, "[") THEN ParseErr("expected square brackets")
    ELSE LET v == ParseVars(input[1].stream)
         IN  IF ~v.ok THEN v
             ELSE LET r == parse(Tail(input))
                  IN  IF ~r.ok THEN r
                      ELSE [ok |-> TRUE, vars |-> v.vars, expr |-> r.expr,
                            rest |-> r.rest]

\* Variant of LispParse: no second attempt after the wrapper shape fails.
LispParseOnce(input) ==
    LET w == ParseComplete(ParseLispWithVars(input))
    IN  IF w.ok THEN [ok |-> TRUE, wrapped |-> TRUE, vars |-> w.vars, expr |-> w.expr]
        ELSE IF PeekGroup(input, "[") THEN w
        ELSE LET p == ParseComplete(parse(input))
             IN  IF p.ok
                 THEN [ok |-> TRUE, wrapped |-> FALSE, vars |-> <<>>, expr |-> p.expr]
                 ELSE p

\* What the macro lisp builds from its input: the captures and the
\* expression of the wrapper shape when the input has it, otherwise the
\* parse of the whole input as one expression.
LispParse(input) ==
    LET w == ParseComplete(ParseLispWithVars(input))
    IN  IF w.ok THEN [ok |-> TRUE, wrapped |-> TRUE, vars |-> w.vars, expr |-> w.expr]
        ELSE LET p == ParseComplete(parse(input))
             IN  IF p.ok
                 THEN [ok |-> TRUE, wrapped |-> FALSE, vars |-> <<>>, expr |-> p.expr]
                 ELSE p

\* Variant of CaptureBlock: the identifiers are rebound in reverse order.
CaptureBlockReversed(names, expr_tokens) ==
    Block(SelfLets(Reverse(names)), <<expr_tokens>>)

\* quote! { { #(let #vars = #vars;)* #expr_tokens } }
CaptureBlock(names, expr_tokens) == Block(SelfLets(names), <<expr_tokens>>)

(***************************************************************************)
(* The expression trees the expander is applied to.                        *)
(***************************************************************************)
SeqsOf(S, lo, hi) == UNION {[1..m -> S] : m \in lo..hi}

Form(head, args) == List(<<head>> \o args)

TableSymbols ==
    {"eq", "gte", "lte", "ne", "modulo", "if", "let", "defn", "call", "try",
     "do", "with-vars", "while", "dotimes", "and", "or", "not", "first",
     "rest", "cons", "count", "str", "min", "max", "abs", "inc", "dec",
     "zero", "pos", "neg", "even", "odd", "println"}

\* A Symbol holds an Ident, so its text is an identifier or a keyword;
\* with-vars is neither and can only be the text of an Operator.
Heads ==
    {Symbol(n) : n \in (TableSymbols \ {"with-vars"}) \cup {"foo"}}
    \cup {Operator(o) : o \in OperatorTokens \cup {"with-vars"}}

BadForm == Form(Symbol("not"), <<>>)

\* Every head with 0..MaxArgs arguments: a literal, a symbol, a vector and
\* a form that is itself an arity violation.
ArityAtoms ==
    {IntLit(1), Symbol("x"), Vector(<<Symbol("a"), IntLit(1)>>), BadForm}

LongAtoms == {Symbol("x"), Vector(<<Symbol("a"), IntLit(1)>>)}

ArityInputs ==
    {Form(h, args) : h \in Heads,
                     args \in SeqsOf(ArityAtoms, 0, 3) \cup SeqsOf(LongAtoms, 4, MaxArgs)}

\* Arithmetic over literals, a negated literal and a nested sum.
ArithHeads ==
    {Operator("+"), Operator("-"), Operator("*"), Operator("/"),
     Symbol("min"), Symbol("max")}

ArithAtoms ==
    {IntLit(n) : n \in 0..MaxLit}
    \cup {Form(Operator("-"), <<IntLit(MaxLit + 1)>>),
          Form(Operator("+"), <<IntLit(1), IntLit(2)>>)}

ArithInputs ==
    {Form(h, args) : h \in ArithHeads, args \in SeqsOf(ArithAtoms, 1, MaxTerms)}

\* let with a binding vector of 0..MaxBind elements.
BindElems ==
    {Symbol("a"), Symbol("b"), IntLit(1),
     Form(Operator("+"), <<Symbol("a"), IntLit(1)>>)}

LetBodies ==
    {Symbol("a"), Symbol("b"), Form(Operator("+"), <<Symbol("a"), Symbol("b")>>)}

LetInputs ==
    {Form(Symbol("let"), <<Vector(v), body>>) :
        v \in SeqsOf(BindElems, 0, MaxBind), body \in LetBodies}

\* defn forms, alone and applied with call.
ParamVectors ==
    {<<>>, <<Symbol("p")>>, <<Symbol("p"), Symbol("q")>>, <<Symbol("q"), Symbol("p")>>}

DefnBodies ==
    {IntLit(1), Symbol("p"),
     Form(Operator("-"), <<Symbol("p"), Symbol("q")>>),
     Form(Operator("*"), <<Symbol("p"), Symbol("p")>>)}

Defns ==
    {Form(Symbol("defn"), <<Symbol("f"), Vector(ps), body>>) :
        ps \in ParamVectors, body \in DefnBodies}

CallArgs == SeqsOf({IntLit(1), IntLit(2), Symbol("x")}, 0, 2)

DefnCallInputs ==
    {Form(Symbol("call"), <<d>> \o as) : d \in Defns, as \in CallArgs}
    \cup {Form(Symbol("let"),
               <<Vector(<<Symbol("g"), d>>), Form(Symbol("call"), <<h>> \o as)>>) :
            d \in Defns, as \in CallArgs, h \in {Symbol("f"), Symbol("g")}}
    \cup {Form(Symbol("do"), <<d, Form(Symbol("call"), <<Symbol("f")>> \o as)>>) :
            d \in Defns, as \in CallArgs}

DefnShapeInputs ==
    {Form(Symbol("defn"), <<n, ps, body>>) :
        n \in {Symbol("f"), IntLit(1)},
        ps \in {Vector(v) : v \in SeqsOf({Symbol("p"), IntLit(1)}, 0, 2)}
               \cup {Symbol("p")},
        body \in {Symbol("p"), IntLit(1)}}

\* (+ x) and (* x) around forms of the other families.
IdentityInputs ==
    {Form(Operator(o), <<x>>) :
        o \in {"+", "*"},
        x \in {e \in ArithInputs : Len(e.exprs) <= 3} \cup DefnShapeInputs}

\* Expressions the tests of the biglisp crate expand and run.
Examples ==
    {Form(Operator("+"), <<IntLit(1), IntLit(2), IntLit(3)>>),
     Form(Operator("*"), <<Form(Operator("+"), <<IntLit(1), IntLit(2)>>),
                           Form(Operator("-"), <<IntLit(5), IntLit(1)>>)>>),
     Form(Operator("/"), <<IntLit(60), IntLit(3), IntLit(2)>>),
     Form(Operator("/"), <<IntLit(7), IntLit(2)>>),
     Form(Operator("-"), <<IntLit(100), IntLit(10), IntLit(5), IntLit(3), IntLit(2)>>),
     Form(Operator("*"), <<IntLit(2), IntLit(2), IntLit(2), IntLit(2), IntLit(2)>>),
     Form(Operator("-"), <<Form(Operator("+"), <<IntLit(3), IntLit(4)>>)>>),
     Form(Symbol("let"), <<Vector(<<Symbol("a"), IntLit(1), Symbol("a"),
                                    Form(Operator("+"), <<Symbol("a"), IntLit(1)>>)>>),
                           Symbol("a")>>),
     Form(Symbol("let"), <<Vector(<<Symbol("x"), IntLit(3), Symbol("y"), IntLit(4)>>),
                           Form(Operator("+"), <<Symbol("x"), Symbol("y")>>)>>),
     Form(Symbol("call"),
          <<Form(Symbol("defn"), <<Symbol("square"), Vector(<<Symbol("x")>>),
                                   Form(Operator("*"), <<Symbol("x"), Symbol("x")>>)>>),
            IntLit(5)>>),
     Form(Symbol("call"),
          <<Form(Symbol("defn"), <<Symbol("add"), Vector(<<Symbol("a"), Symbol("b")>>),
                                   Form(Operator("+"), <<Symbol("a"), Symbol("b")>>)>>),
            IntLit(3), IntLit(7)>>)}

\* Lists without a table head: the empty list, heads that are not names,
\* names outside the table, and table names carried by an Operator.
DispatchHeads ==
    {IntLit(1), Vector(<<Symbol("x")>>), List(<<>>),
     Form(Symbol("foo"), <<>>),
     Form(Operator("+"), <<IntLit(1), Symbol("f")>>),
     Symbol("foo"), Symbol("bar"), Operator("foo"), Operator(">=")}

DispatchArgs ==
    SeqsOf({IntLit(1), Symbol("x"), Form(Operator("+"), <<IntLit(1), IntLit(2)>>)}, 0, 2)

DispatchInputs ==
    {List(<<>>)}
    \cup {Form(h, args) : h \in DispatchHeads, args \in DispatchArgs}
    \cup {Form(Operator(n), args) :
            n \in TableSymbols \cup {"foo"}, args \in SeqsOf(ArityAtoms, 0, 2)}

\* Operators in value position: alone, as an argument, in a vector.
OperatorTexts == OperatorTokens \cup {">=", "<=", "!="}

OperatorValueInputs ==
    {Operator(o) : o \in OperatorTexts}
    \cup {Form(Symbol("foo"), <<Operator(o), Symbol("x")>>) : o \in OperatorTexts}
    \cup {Vector(<<Operator(o)>>) : o \in OperatorTexts}

\* try around terms that complete and terms that divide by zero.
TryAtoms ==
    {IntLit(1),
     Form(Operator("/"), <<IntLit(1), IntLit(0)>>),
     Form(Operator("+"), <<IntLit(5), IntLit(5)>>),
     Form(Operator("-"), <<IntLit(0), IntLit(1)>>),
     Form(Symbol("try"), <<Form(Operator("/"), <<IntLit(1), IntLit(0)>>)>>),
     Form(Symbol("try"), <<Form(Operator("+"), <<IntLit(5), IntLit(5)>>), IntLit(0)>>)}

TryInputs == {Form(Symbol("try"), args) : args \in SeqsOf(TryAtoms, 1, 3)}

PrintlnAtoms ==
    {IntLit(1), Symbol("x"), StrLit("hi"),
     Form(Operator("+"), <<IntLit(1), IntLit(2)>>)}

PrintlnInputs == {Form(Symbol("println"), args) : args \in SeqsOf(PrintlnAtoms, 0, 3)}

\* do over terms that have a value and a term that divides by zero; while
\* over conditions that are false and true where the loop is reached (x is
\* 10) and bodies with and without a value.
DoAtoms ==
    {IntLit(1),
     Form(Operator("+"), <<IntLit(1), IntLit(2)>>),
     Form(Operator("-"), <<IntLit(10), IntLit(5)>>),
     Form(Operator("/"), <<IntLit(1), IntLit(0)>>)}

WhileConds ==
    {BoolLit(FALSE), BoolLit(TRUE),
     Form(Operator("<"), <<Symbol("x"), IntLit(3)>>),
     Form(Operator(">"), <<Symbol("x"), IntLit(3)>>)}

WhileBodies ==
    {IntLit(1), Symbol("x"),
     Form(Operator("+"), <<IntLit(1), IntLit(2)>>),
     Form(Symbol("println"), <<IntLit(1)>>),
     Form(Symbol("do"), <<>>),
     Form(Symbol("do"), <<Form(Operator("/"), <<IntLit(1), IntLit(0)>>),
                          Form(Symbol("println"), <<IntLit(1)>>)>>)}

DoWhileInputs ==
    {Form(Symbol("do"), args) : args \in SeqsOf(DoAtoms, 0, 3)}
    \cup {Form(Symbol("while"), <<c, b>>) : c \in WhileConds, b \in WhileBodies}

\* if over conditions that hold and fail (x is 10) and branches that are
\* numbers, strings, a unit-valued form and a division by zero.
IfConds ==
    {Form(Operator(">"), <<IntLit(5), IntLit(3)>>),
     Form(Operator("<"), <<IntLit(5), IntLit(3)>>),
     Form(Operator(">"), <<Symbol("x"), IntLit(18)>>),
     Form(Operator(">"), <<Form(Operator("+"), <<IntLit(2), IntLit(3)>>), IntLit(4)>>)}

IfBranches ==
    {IntLit(10), IntLit(20), StrLit("yes"), StrLit("no"),
     Form(Operator("*"), <<IntLit(2), IntLit(5)>>),
     Form(Operator("/"), <<IntLit(1), IntLit(0)>>),
     Form(Symbol("println"), <<IntLit(1)>>)}

IfInputs ==
    {Form(Symbol("if"), <<c>> \o bs) : c \in IfConds, bs \in SeqsOf(IfBranches, 1, 2)}

\* The collection primitives over an element and a collection that is
\* empty, has one element or several, written as a literal or computed.
CollElems == {IntLit(0), IntLit(7)}

CollSeqs ==
    {Vector(<<>>), Vector(<<IntLit(42)>>),
     Vector(<<IntLit(1), IntLit(2), IntLit(3)>>),
     Form(Symbol("rest"), <<Vector(<<IntLit(42)>>)>>),
     Form(Symbol("rest"), <<Vector(<<IntLit(1), IntLit(2), IntLit(3), IntLit(4)>>)>>)}

ConsForms == {Form(Symbol("cons"), <<e, s>>) : e \in CollElems, s \in CollSeqs}

CollInputs ==
    ConsForms \cup CollSeqs
    \cup {Form(Symbol(f), <<s>>) : f \in {"first", "rest", "count"},
                                   s \in ConsForms \cup CollSeqs}

\* str over strings, integers, sums, a negative number and a division by
\* zero.
StrAtoms ==
    {StrLit("hello"), StrLit(" "), StrLit("Sum: "), IntLit(42),
     Form(Operator("+"), <<IntLit(2), IntLit(3)>>),
     Form(Operator("-"), <<IntLit(0), IntLit(7)>>),
     Form(Operator("/"), <<IntLit(1), IntLit(0)>>)}

StrInputs == {Form(Symbol("str"), args) : args \in SeqsOf(StrAtoms, 0, MaxTerms)}

\* and, or, not over boolean terms that hold, fail, or have no value (a
\* comparison whose operand divides by zero).
BoolAtoms ==
    {BoolLit(TRUE), BoolLit(FALSE),
     Form(Operator(">"), <<IntLit(5), IntLit(3)>>),
     Form(Operator("<"), <<IntLit(5), IntLit(3)>>),
     Form(Operator("="), <<IntLit(1), IntLit(1)>>),
     Form(Operator("="), <<Form(Operator("/"), <<IntLit(1), IntLit(0)>>), IntLit(1)>>)}

BoolInputs ==
    {Form(Symbol(f), bs) : f \in {"and", "or"}, bs \in SeqsOf(BoolAtoms, 2, MaxTerms)}
    \cup {Form(Symbol("not"), <<b>>) : b \in BoolAtoms}

\* Forms whose argument uses a variable n of the enclosing scope, for
\* names the templates use themselves (result, v, val) and one they do
\* not: the list argument of cons, the argument of rest, the body and the
\* fallback of try, the condition and the body of while.
ScopeNames == {"result", "v", "val", "w"}

ScopeForms(n) ==
    <<Form(Symbol("let"), <<Vector(<<Symbol(n), Vector(<<IntLit(1), IntLit(2)>>)>>),
                            Form(Symbol("cons"), <<IntLit(0), Symbol(n)>>)>>),
      Form(Symbol("let"), <<Vector(<<Symbol(n), Vector(<<IntLit(1), IntLit(2)>>)>>),
                            Form(Symbol("rest"), <<Symbol(n)>>)>>),
      Form(Symbol("let"), <<Vector(<<Symbol(n), IntLit(7)>>),
                            Form(Symbol("try"), <<Symbol(n), IntLit(0)>>)>>),
      Form(Symbol("let"), <<Vector(<<Symbol(n), IntLit(7)>>),
                            Form(Symbol("try"),
                                 <<Form(Operator("/"), <<IntLit(1), IntLit(0)>>),
                                   Symbol(n)>>)>>),
      Form(Symbol("let"), <<Vector(<<Symbol(n), BoolLit(FALSE)>>),
                            Form(Symbol("while"),
                                 <<Symbol(n), Form(Symbol("println"), <<IntLit(1)>>)>>)>>),
      Form(Symbol("let"), <<Vector(<<Symbol(n), IntLit(7)>>),
                            Form(Symbol("while"),
                                 <<BoolLit(FALSE),
                                   Form(Symbol("println"), <<Symbol(n)>>)>>)>>)>>

ScopeInputs == {ScopeForms(n)[i] : n \in ScopeNames, i \in DOMAIN ScopeForms("w")}

\* let, defn and with-vars with one expression more than the body.
ExtraBodyInputs ==
    {Form(Symbol("let"), <<Vector(<<Symbol("a"), IntLit(1)>>), Symbol("a"),
                           Form(Operator("+"), <<Symbol("a"), IntLit(1)>>)>>),
     Form(Symbol("let"), <<Vector(<<Symbol("a"), IntLit(1)>>), Symbol("a")>>),
     Form(Symbol("defn"), <<Symbol("f"), Vector(<<Symbol("p")>>), Symbol("p"),
                            Form(Operator("+"), <<Symbol("p"), IntLit(1)>>)>>),
     Form(Operator("with-vars"), <<Vector(<<Symbol("x")>>), Symbol("y"),
                                   Form(Operator("+"), <<Symbol("x"), IntLit(1)>>)>>)}

Inputs ==
    ArityInputs \cup ArithInputs \cup LetInputs \cup DefnCallInputs
    \cup DefnShapeInputs \cup IdentityInputs \cup Examples
    \cup DispatchInputs \cup OperatorValueInputs \cup TryInputs \cup PrintlnInputs \cup DoWhileInputs \cup IfInputs \cup CollInputs \cup StrInputs \cup BoolInputs \cup ScopeInputs \cup ExtraBodyInputs

(***************************************************************************)
(* The token streams the macro lisp is applied to.                         *)
(***************************************************************************)
MaxToks == 3

Parens(stream) == TGroup("(", stream)
Brackets(stream) == TGroup("[", stream)
Alone(ch) == TPunct(ch, FALSE)
Joint(ch) == TPunct(ch, TRUE)
TInt(n) == TLit("int", n)
\* The float literal 1.5 (held as its number of tenths) and a string.
TFloat(n) == TLit("float", n)
TStr(text) == TLit("str", text)

\* What the host's lexer can hand over: a joint punctuation character has
\* another punctuation character right after it.
RECURSIVE Lexable(_)
Lexable(stream) ==
    \A i \in 1..Len(stream) :
        /\ (stream[i].tt = "Punct" /\ stream[i].joint) =>
              (i < Len(stream) /\ stream[i + 1].tt = "Punct")
        /\ stream[i].tt = "Group" => Lexable(stream[i].stream)

\* One token of each class of the grammar, and tokens of none.
TokAtoms ==
    {TIdent("x"), TIdent("if"), TIdent("true"), TIdent("fn"), TInt(1),
     TFloat(15), TStr("hi"),
     Alone("-"), Joint(">"), Alone("="), Alone(","), Alone("!")}

FewAtoms == {TIdent("x"), TInt(1), Alone("-"), Alone(",")}

GroupStreams == SeqsOf(TokAtoms, 0, 2) \cup SeqsOf(FewAtoms, 3, MaxToks)

\* The words the parser knows, and two it does not.
WordInputs ==
    {<<Parens(<<TIdent(w), TInt(1)>>)>> :
        w \in SymbolKeywords \cup {"false", "defn", "gte", "for", "_"}}

GrammarInputs ==
    SeqsOf(TokAtoms, 0, 2)
    \cup WordInputs
    \cup {<<TGroup(d, s)>> : d \in {"(", "[", "{"}, s \in GroupStreams}
    \cup {<<TGroup(d, <<TGroup(d2, s2)>> \o s)>> :
            d \in {"(", "["}, d2 \in {"(", "["},
            s2 \in SeqsOf(TokAtoms, 0, 1), s \in SeqsOf(FewAtoms, 0, 1)}
    \cup {<<TGroup(d, s \o <<TGroup(d2, s2)>>)>> :
            d \in {"(", "["}, d2 \in {"(", "["},
            s2 \in SeqsOf(TokAtoms, 0, 1), s \in SeqsOf(FewAtoms, 1, 1)}

\* The source texts >=, <=, == and -> as the lexer hands them over.
CompoundTokens ==
    {<<Joint(">"), Alone("=")>>, <<Joint("<"), Alone("=")>>,
     <<Joint("="), Alone("=")>>, <<Joint("-"), Alone(">")>>}

CompoundInputs ==
    CompoundTokens
    \cup {<<TGroup(d, pre \o c \o post)>> :
            d \in {"(", "["}, c \in CompoundTokens,
            pre \in SeqsOf({TIdent("x")}, 0, 1),
            post \in SeqsOf({TInt(1), TIdent("x")}, 0, 2)}

\* A bracket group and what follows it.
WrapperLists == SeqsOf({TIdent("x"), TIdent("y"), TIdent("z"), Alone(","), TInt(1)}, 0, 3)

WrapperBodies ==
    {<<>>,
     <<TIdent("x")>>,
     <<Parens(<<Alone("+"), TIdent("x"), TIdent("y")>>)>>,
     <<Parens(<<Alone("*"), TIdent("x"), TInt(2)>>)>>,
     <<Brackets(<<TIdent("y")>>)>>,
     <<Parens(<<Alone("+"), TIdent("x"), TIdent("y")>>), TIdent("x")>>,
     <<Alone(",")>>}

WrapperInputs ==
    {<<Brackets(ids)>> \o body : ids \in WrapperLists, body \in WrapperBodies}
    \cup {<<Brackets(<<TInt(1), TInt(2), TInt(3), TInt(4)>>)>>,
          <<Brackets(<<TIdent("if")>>), TIdent("x")>>}

\* The source text (with-vars [v1 .. vn] body) as the lexer hands it over:
\* with-vars is no single token but the word with, a minus sign and the
\* word vars.
WithVarsSource(ids, body) ==
    <<Parens(<<TIdent("with"), Alone("-"), TIdent("vars"), Brackets(ids)>> \o body)>>

WithVarsIds == SeqsOf({TIdent("x"), TIdent("y")}, 0, 2)

WithVarsBodies ==
    {<<TIdent("x")>>, <<TInt(1)>>,
     <<Parens(<<Alone("+"), TIdent("x"), TIdent("y")>>)>>}

WithVarsSources ==
    {WithVarsSource(ids, body) : ids \in WithVarsIds, body \in WithVarsBodies}

\* The source text -n as the lexer hands it over: a minus sign and the
\* literal n.
Minus(n) == <<Alone("-"), TInt(n)>>

UnaryWords == {"abs", "neg", "pos", "inc"}

\* (f -n), (f n) and (f (- 0 n)).
NegativeSources ==
    {<<Parens(<<TIdent(f)>> \o Minus(n))>> : f \in UnaryWords, n \in {5, 7}}
    \cup {<<Parens(<<TIdent(f), TInt(n)>>)>> : f \in UnaryWords, n \in {5, 7}}
    \cup {<<Parens(<<TIdent(f), Parens(<<Alone("-"), TInt(0), TInt(n)>>)>>)>> :
            f \in UnaryWords, n \in {5, 7}}

TokenInputs ==
    {ts \in GrammarInputs \cup CompoundInputs \cup WrapperInputs \cup WithVarsSources
            \cup NegativeSources :
        Lexable(ts)}

(***************************************************************************)
(* The state machine.  A token stream is handed to the macro lisp, which   *)
(* parses and expands it in one step; an expression tree built by the      *)
(* caller is expanded by to_rust.  The code handed back is then compiled   *)
(* and run by the host.                                                    *)
(***************************************************************************)
NoExpr == [tag |-> "none"]
NoCapture == [wrapped |-> FALSE, vars |-> <<>>]
NoCode == [k |-> "none"]
NoValue == [t |-> "none"]

FromTree == [from |-> "tree"]
FromTokens(stream) == [from |-> "tokens", stream |-> stream]

Init ==
    /\ \/ /\ source = FromTree
          /\ expr \in Inputs
          /\ pc = "parsed"
       \/ /\ source \in {FromTokens(ts) : ts \in TokenInputs}
          /\ expr = NoExpr
          /\ pc = "tokens"
    /\ capture = NoCapture
    /\ code = NoCode
    /\ output = NoCode
    /\ value = NoValue

\* LispExpr::to_rust called on a tree.
Expand ==
    /\ pc = "parsed"
    /\ LET c == to_rust(expr)
       IN  IF Aborts(c)
           THEN /\ pc' = "aborted"
                /\ UNCHANGED <<code, output>>
           ELSE /\ code' = c
                /\ output' = c
                /\ pc' = "expanded"
    /\ UNCHANGED <<source, expr, capture, value>>

\* The macro lisp called on a token stream.
Lisp ==
    /\ pc = "tokens"
    /\ LET p == LispParse(source.stream)
       IN  IF ~p.ok
           THEN /\ pc' = "syntax_error"
                /\ output' = CompileError(p.msg)
                /\ UNCHANGED <<expr, capture, code>>
           ELSE LET c == to_rust(p.expr)
                IN  /\ expr' = p.expr
                    /\ capture' = [wrapped |-> p.wrapped, vars |-> p.vars]
                    /\ IF Aborts(c)
                       THEN /\ pc' = "aborted"
                            /\ UNCHANGED <<code, output>>
                       ELSE /\ code' = c
                            /\ output' = IF p.wrapped THEN CaptureBlock(p.vars, c) ELSE c
                            /\ pc' = "expanded"
    /\ UNCHANGED <<source, value>>

\* The host compiles and runs what the macro handed back.
Run ==
    /\ pc = "expanded"
    /\ value' = RunHost(output)
    /\ pc' = "evaluated"
    /\ UNCHANGED <<source, expr, capture, code, output>>

Next == Expand \/ Lisp \/ Run

Spec == Init /\ [][Next]_vars

(***************************************************************************)
(* Vocabulary of the properties.                                           *)
(***************************************************************************)
IsForm(e) ==
    /\ e.tag = "List"
    /\ e.exprs # <<>>
    /\ e.exprs[1].tag \in {"Symbol", "Operator"}

HeadText(e) == IF e.exprs[1].tag = "Symbol" THEN e.exprs[1].name ELSE e.exprs[1].op

ArgsOf(e) == Tail(e.exprs)

IsFormOf(e, names) == IsForm(e) /\ HeadText(e) \in names

\* The fixed arity the operation table gives an operation; 0 when it has none.
FixedArity(name) ==
    CASE name \in {"=", "eq", "<", ">", "gte", "lte", "ne", "%", "modulo",
                   "cons", "while"} -> 2
      [] name \in {"not", "first", "rest", "count", "abs", "inc", "dec",
                   "zero", "pos", "neg", "even", "odd"} -> 1
      [] name = "dotimes" -> 3
      [] OTHER -> 0

\* The argument counts below an operation's minimum (for if: the counts
\* other than 2 and 3).
BelowMinimum(name, n) ==
    CASE name = "-" -> n = 0
      [] name \in {"/", "and", "or", "min", "max"} -> n < 2
      [] name \in {"call", "try"} -> n = 0
      [] name \in {"let", "with-vars"} -> n < 2
      [] name = "defn" -> n < 3
      [] name = "if" -> n \notin {2, 3}
      [] OTHER -> FALSE

\* The wording by which an arity error names its operation.
ArityMessage(name) ==
    CASE name = "-" -> "Subtraction requires at least 1 argument"
      [] name = "/" -> "Division requires at least 2 arguments"
      [] name = "and" -> "And requires at least 2 arguments"
      [] name = "or" -> "Or requires at least 2 arguments"
      [] name = "min" -> "min requires at least 2 arguments"
      [] name = "max" -> "max requires at least 2 arguments"
      [] name = "call" -> "call requires at least a function"
      [] name = "try" -> "try requires at least a body"
      [] name = "let" -> "Let requires bindings and body"
      [] name = "with-vars" -> "with-vars requires variables and body"
      [] name = "defn" -> "Function definition requires name, params, and body"
      [] name = "if" -> "If requires 2 or 3 arguments"
      [] OTHER -> ""

\* Every sub-expression of e, e included.
RECURSIVE SubExprs(_)
SubExprs(e) ==
    IF e.tag \in {"List", "Vector"}
    THEN {e} \cup UNION {SubExprs(e.exprs[i]) : i \in 1..Len(e.exprs)}
    ELSE {e}

(***************************************************************************)
(* Reference semantics of the source forms, as the operation table states  *)
(* them: integer literals, symbols, the n-ary numeric operations as left   *)
(* folds, and let as sequential binding.  ErrV("undef") where the table    *)
(* gives no value.                                                         *)
(***************************************************************************)
NumericOps == {"+", "-", "*", "/", "min", "max"}

RefStep(op, a, b) ==
    CASE op = "+" -> IntV(a + b)
      [] op = "-" -> IntV(a - b)
      [] op = "*" -> IntV(a * b)
      [] op = "/" -> IF b = 0 THEN ErrV("undef")
                     ELSE IntV((IF (a < 0) # (b < 0) THEN -1 ELSE 1)
                               * (Abs(a) \div Abs(b)))
      [] op = "min" -> IntV(IF a <= b THEN a ELSE b)
      [] op = "max" -> IntV(IF a >= b THEN a ELSE b)

\* ((v1 op v2) op ...) op vn, from the accumulated value acc.
RECURSIVE RefFold(_, _, _)
RefFold(op, acc, vals) ==
    IF vals = <<>> \/ IsErr(acc) THEN acc
    ELSE RefFold(op, RefStep(op, acc.n, Head(vals).n), Tail(vals))

RECURSIVE Sem(_, _)
RECURSIVE SemLet(_, _, _)

SemAll(es, env) == [i \in 1..Len(es) |-> Sem(es[i], env)]

SemLet(bindings, body, env) ==
    IF bindings = <<>> THEN Sem(body, env)
    ELSE IF Len(bindings) = 1 \/ ~IsSymbol(bindings[1]) THEN ErrV("undef")
    ELSE LET v == Sem(bindings[2], env)
         IN  IF IsErr(v) THEN v
             ELSE SemLet(SubSeq(bindings, 3, Len(bindings)), body,
                         Bind(env, bindings[1].name, v))

Sem(e, env) ==
    CASE e.tag = "Literal" -> IF e.kind = "int" THEN IntV(e.val) ELSE ErrV("undef")
      [] e.tag = "Symbol" -> Lookup(env, e.name)
      [] IsFormOf(e, NumericOps) ->
           LET op == HeadText(e)
               vals == SemAll(ArgsOf(e), env)
           IN  IF \E i \in 1..Len(vals) : ~IsInt(vals[i]) THEN ErrV("undef")
               ELSE IF Len(vals) >= 2 THEN RefFold(op, vals[1], Tail(vals))
               ELSE IF Len(vals) = 1 /\ op = "-" THEN IntV(0 - vals[1].n)
               ELSE ErrV("undef")
      [] IsFormOf(e, {"let"}) ->
           IF Len(ArgsOf(e)) = 2 /\ IsVector(ArgsOf(e)[1])
           THEN SemLet(ArgsOf(e)[1].exprs, ArgsOf(e)[2], env)
           ELSE ErrV("undef")
      [] OTHER -> ErrV("undef")

\* The callable of (defn n [p1..pk] body) applied to the values of as.
SemApply(d, as, env) ==
    LET ps == ArgsOf(d)[2].exprs
        vals == SemAll(as, env)
    IN  IF Len(as) # Len(ps) \/ (\E i \in 1..Len(vals) : ~IsInt(vals[i]))
        THEN ErrV("undef")
        ELSE Sem(ArgsOf(d)[3], BindAll(env, [i \in 1..Len(ps) |-> ps[i].name], vals))

(***************************************************************************)
(* Properties.                                                             *)
(***************************************************************************)
\* to_rust(expr) has returned code.
Expanded == pc \in {"expanded", "evaluated"}
\* The host has run the expansion of expr itself (no capture wrapper
\* around it).
Evaluated == pc = "evaluated" /\ ~capture.wrapped

\* C1: for every operation of fixed arity k, a form with k-1 or k+1
\* arguments expands to an expansion error, never to a generated expression.
C1_FixedArity ==
    (/\ Expanded
     /\ IsForm(expr)
     /\ FixedArity(HeadText(expr)) > 0
     /\ Len(ArgsOf(expr)) \in {FixedArity(HeadText(expr)) - 1,
                               FixedArity(HeadText(expr)) + 1})
    => IsError(code)

C1_Witness ==
    /\ pc = "expanded"
    /\ IsFormOf(expr, {"dotimes"})
    /\ Len(ArgsOf(expr)) = 4
    /\ IsError(code)

\* C2: a form with fewer arguments than its operation's minimum (if: with
\* a count other than 2 or 3) expands to an expansion error that names the
\* operation.
C2_BelowMinimum ==
    (/\ Expanded
     /\ IsForm(expr)
     /\ BelowMinimum(HeadText(expr), Len(ArgsOf(expr))))
    => (IsError(code) /\ code.msg = ArityMessage(HeadText(expr)))

C2_Witness ==
    /\ pc = "expanded"
    /\ IsFormOf(expr, {"/"})
    /\ Len(ArgsOf(expr)) = 1
    /\ IsError(code)

\* C3: no partial success: the generated code holds an expansion error
\* exactly when some sub-expression of the tree expands to one (an error is
\* never suppressed or dropped).
C3_NoPartialSuccess ==
    Expanded =>
        ((\E sub \in SubExprs(expr) : IsError(to_rust(sub))) <=> HasCompileError(code))

\* C4: (+) expands to 0, (*) expands to 1, and (+ x) and (* x) expand to
\* exactly the expansion of x.
C4_IdentityLaws ==
    (Expanded /\ IsFormOf(expr, {"+", "*"}))
    => /\ Len(ArgsOf(expr)) = 0
          => code = IntCode(IF HeadText(expr) = "+" THEN 0 ELSE 1)
       /\ Len(ArgsOf(expr)) = 1
          => code = to_rust(ArgsOf(expr)[1])

C4_Witness ==
    /\ pc = "expanded"
    /\ IsFormOf(expr, {"*"})
    /\ Len(ArgsOf(expr)) = 1
    /\ IsFormOf(ArgsOf(expr)[1], {"-"})
    /\ code = to_rust(ArgsOf(expr)[1])

\* The forms C5 speaks of: a numeric operation with two or more arguments,
\* or unary minus, over integer literals and such forms.
RECURSIVE IsNumericTerm(_)
IsNumericTerm(e) ==
    \/ e.tag = "Literal" /\ e.kind = "int"
    \/ /\ IsFormOf(e, NumericOps)
       /\ Len(ArgsOf(e)) >= 2 \/ (HeadText(e) = "-" /\ Len(ArgsOf(e)) = 1)
       /\ \A i \in 1..Len(ArgsOf(e)) : IsNumericTerm(ArgsOf(e)[i])

\* C5: the generated code of an n-ary numeric operation evaluates to the
\* left fold of its operator over the arguments' values in source order
\* (division truncating), and (- a) to the negation of a; (+ 1 2 3) is 6,
\* (* (+ 1 2) (- 5 1)) is 12, (/ 60 3 2) is 10, (- 100 10 5 3 2) is 80.
C5_LeftFolds ==
    Evaluated =>
        /\ (IsForm(expr) /\ IsNumericTerm(expr) /\ IsInt(Sem(expr, HostScope)))
           => value = Sem(expr, HostScope)
        /\ expr = Form(Operator("+"), <<IntLit(1), IntLit(2), IntLit(3)>>)
           => value = IntV(6)
        /\ expr = Form(Operator("*"),
                       <<Form(Operator("+"), <<IntLit(1), IntLit(2)>>),
                         Form(Operator("-"), <<IntLit(5), IntLit(1)>>)>>)
           => value = IntV(12)
        /\ expr = Form(Operator("/"), <<IntLit(60), IntLit(3), IntLit(2)>>)
           => value = IntV(10)
        /\ expr = Form(Operator("-"),
                       <<IntLit(100), IntLit(10), IntLit(5), IntLit(3), IntLit(2)>>)
           => value = IntV(80)

C5_Witness ==
    /\ Evaluated
    /\ IsFormOf(expr, {"/"})
    /\ IsNumericTerm(expr)
    /\ Len(ArgsOf(expr)) = 3
    /\ IsFormOf(ArgsOf(expr)[1], {"-"})
    /\ IsInt(value)
    /\ value.n < 0

\* A let of a binding vector of (Symbol, value) pairs and one body.
IsPairedLet(e) ==
    /\ IsFormOf(e, {"let"})
    /\ Len(ArgsOf(e)) = 2
    /\ IsVector(ArgsOf(e)[1])
    /\ Len(ArgsOf(e)[1].exprs) % 2 = 0
    /\ \A i \in 1..Len(ArgsOf(e)[1].exprs) :
          i % 2 = 1 => IsSymbol(ArgsOf(e)[1].exprs[i])

\* C6: let binds sequentially: each pair's binding is visible to the value
\* expressions of the later pairs and to the body; (let [a 1 a (+ a 1)] a)
\* is 2 and (let [x 3 y 4] (+ x y)) is 7.
C6_LetSequential ==
    Evaluated =>
        /\ (IsPairedLet(expr) /\ IsInt(Sem(expr, HostScope)))
           => value = Sem(expr, HostScope)
        /\ expr = Form(Symbol("let"),
                       <<Vector(<<Symbol("a"), IntLit(1), Symbol("a"),
                                  Form(Operator("+"), <<Symbol("a"), IntLit(1)>>)>>),
                         Symbol("a")>>)
           => value = IntV(2)
        /\ expr = Form(Symbol("let"),
                       <<Vector(<<Symbol("x"), IntLit(3), Symbol("y"), IntLit(4)>>),
                         Form(Operator("+"), <<Symbol("x"), Symbol("y")>>)>>)
           => value = IntV(7)

C6_Witness ==
    /\ Evaluated
    /\ expr = Form(Symbol("let"),
                   <<Vector(<<Symbol("a"), IntLit(1), Symbol("b"),
                              Form(Operator("+"), <<Symbol("a"), IntLit(1)>>)>>),
                     Form(Operator("+"), <<Symbol("a"), Symbol("b")>>)>>)
    /\ value = IntV(3)

\* C7: a let (with bindings and body) whose first argument is not a
\* Vector, or is a Vector of an odd number of elements, expands to an
\* expansion error.
C7_LetShape ==
    (/\ Expanded
     /\ IsFormOf(expr, {"let"})
     /\ Len(ArgsOf(expr)) >= 2
     /\ \/ ~IsVector(ArgsOf(expr)[1])
        \/ Len(ArgsOf(expr)[1].exprs) % 2 = 1)
    => IsError(code)

\* A use of the name a defn form defines, or of the name its value was
\* bound to, by a later expression of the enclosing scope:
\* (let [g (defn f ps body)] (call h as)) and (do (defn f ps body) (call f as)).
IsLetDefnCall(e) ==
    /\ IsFormOf(e, {"let"})
    /\ Len(ArgsOf(e)) = 2
    /\ IsVector(ArgsOf(e)[1])
    /\ Len(ArgsOf(e)[1].exprs) = 2
    /\ ArgsOf(e)[1].exprs[1] = Symbol("g")
    /\ ArgsOf(e)[1].exprs[2] \in Defns
    /\ IsFormOf(ArgsOf(e)[2], {"call"})

IsDoDefnCall(e) ==
    /\ IsFormOf(e, {"do"})
    /\ Len(ArgsOf(e)) = 2
    /\ ArgsOf(e)[1] \in Defns
    /\ IsFormOf(ArgsOf(e)[2], {"call"})

DefnOf(e) == IF IsFormOf(e, {"let"}) THEN ArgsOf(e)[1].exprs[2] ELSE ArgsOf(e)[1]
LaterCall(e) == ArgsOf(e)[2]
Callee(e) == ArgsOf(LaterCall(e))[1]
Applied(e) == SemApply(DefnOf(e), Tail(ArgsOf(LaterCall(e))), HostScope)

IsDirectCall(e) ==
    /\ IsFormOf(e, {"call"})
    /\ Len(ArgsOf(e)) >= 1
    /\ ArgsOf(e)[1] \in Defns

\* C9: the value of a defn form is a callable of its k parameters; call
\* invokes it with the arguments in source order and evaluates to the body
\* with each parameter bound to its argument (square of 5 is 25, add of 3
\* and 7 is 10); call with only a callee invokes it with no arguments.
C9_DefnCallRoundTrip ==
    Evaluated =>
        /\ (IsDirectCall(expr)
            /\ IsInt(SemApply(ArgsOf(expr)[1], Tail(ArgsOf(expr)), HostScope)))
           => value = SemApply(ArgsOf(expr)[1], Tail(ArgsOf(expr)), HostScope)
        /\ (IsLetDefnCall(expr) /\ Callee(expr) = Symbol("g") /\ IsInt(Applied(expr)))
           => value = Applied(expr)
        /\ expr = Form(Symbol("call"),
                       <<Form(Symbol("defn"),
                              <<Symbol("square"), Vector(<<Symbol("x")>>),
                                Form(Operator("*"), <<Symbol("x"), Symbol("x")>>)>>),
                         IntLit(5)>>)
           => value = IntV(25)
        /\ expr = Form(Symbol("call"),
                       <<Form(Symbol("defn"),
                              <<Symbol("add"), Vector(<<Symbol("a"), Symbol("b")>>),
                                Form(Operator("+"), <<Symbol("a"), Symbol("b")>>)>>),
                         IntLit(3), IntLit(7)>>)
           => value = IntV(10)

C9_Witness ==
    /\ Evaluated
    /\ expr = Form(Symbol("call"),
                   <<Form(Symbol("defn"),
                          <<Symbol("f"), Vector(<<Symbol("p"), Symbol("q")>>),
                            Form(Operator("-"), <<Symbol("p"), Symbol("q")>>)>>),
                     IntLit(2), IntLit(1)>>)
    /\ value = IntV(1)

\* C10: a defn (with name, params and body) whose first argument is not a
\* Symbol, whose second argument is not a Vector, or whose parameter Vector
\* holds an element that is not a Symbol, expands to an expansion error.
C10_DefnShape ==
    (/\ Expanded
     /\ IsFormOf(expr, {"defn"})
     /\ Len(ArgsOf(expr)) >= 3
     /\ \/ ~IsSymbol(ArgsOf(expr)[1])
        \/ ~IsVector(ArgsOf(expr)[2])
        \/ \E i \in 1..Len(ArgsOf(expr)[2].exprs) : ~IsSymbol(ArgsOf(expr)[2].exprs[i]))
    => IsError(code)

\* The names of the operation table: what a head's text is looked up in.
TableNames == TableSymbols \cup OperatorTokens

\* The same form with its head carried by the other of Symbol / Operator.
HeadAs(e, text) ==
    IF e.exprs[1].tag = "Symbol"
    THEN Form(Operator(text), ArgsOf(e))
    ELSE Form(Symbol(text), ArgsOf(e))

\* The other spelling of an operation that has two.
Alias(text) ==
    CASE text = "=" -> "eq"
      [] text = "eq" -> "="
      [] text = "%" -> "modulo"
      [] text = "modulo" -> "%"
      [] OTHER -> text

PlainCall(head, args) == Call(head, ToRustAll(args))

SlotTag(op) ==
    CASE op = "+" -> "plus"
      [] op = "-" -> "minus"
      [] op = "*" -> "mul"
      [] op = "/" -> "div"
      [] op = "=" -> "eq"
      [] op = "<" -> "lt"
      [] op = ">" -> "gt"
      [] op = "%" -> "mod"
      [] op = ">=" -> "gte"
      [] op = "<=" -> "lte"
      [] op = "!=" -> "ne"

SlotOf(op) == Ident("op_" \o SlotTag(op))

\* C12: an Operator in value position (alone, as an argument of a call, as
\* an element of a vector) expands to the identifier op_<tag> with the tag
\* of its text: plus, minus, mul, div, eq, lt, gt, mod, and gte, lte, ne
\* for the two-character texts.
C12_OperatorSlot ==
    /\ (pc \in {"aborted", "expanded", "evaluated"} /\ expr.tag = "Operator"
           /\ expr.op \in OperatorTexts) =>
          (Expanded /\ code = SlotOf(expr.op))
    /\ (pc \in {"aborted", "expanded", "evaluated"} /\ expr.tag = "Vector"
           /\ Len(expr.exprs) = 1 /\ expr.exprs[1].tag = "Operator"
           /\ expr.exprs[1].op \in OperatorTexts) =>
          (Expanded /\ code = VecMacro(<<SlotOf(expr.exprs[1].op)>>))
    /\ (pc \in {"aborted", "expanded", "evaluated"} /\ IsFormOf(expr, {"foo"})
           /\ Len(ArgsOf(expr)) = 2 /\ ArgsOf(expr)[1].tag = "Operator"
           /\ ArgsOf(expr)[1].op \in OperatorTexts) =>
          (Expanded /\ code = Call(Ident("foo"),
                                   <<SlotOf(ArgsOf(expr)[1].op), to_rust(ArgsOf(expr)[2])>>))

\* The macro lisp has returned for a token stream.
MacroDone == source.from = "tokens" /\ pc # "tokens"

IsIdentToken(t) == t.tt = "Ident" /\ t.text \notin HostKeywords
IsComma(t) == t.tt = "Punct" /\ t.ch = ","

\* s is a comma-separated identifier list (the last identifier may have a
\* comma after it).
IsCaptureList(s) ==
    \A i \in 1..Len(s) : IF i % 2 = 1 THEN IsIdentToken(s[i]) ELSE IsComma(s[i])

CaptureNames(s) == [i \in 1..((Len(s) + 1) \div 2) |-> s[2 * i - 1].text]

\* ts is a bracketed identifier list followed by exactly one expression.
IsWrapperShape(ts) ==
    /\ PeekGroup(ts, "[")
    /\ IsCaptureList(ts[1].stream)
    /\ ParseComplete(parse(Tail(ts))).ok

AllBound(names, env) == \A i \in 1..Len(names) : ~IsErr(Lookup(env, names[i]))

\* C13: for an input [id1, id2, ...] expr the macro hands back the block
\* { let id1 = id1; let id2 = id2; ... <expansion of expr> }, the rebindings
\* in list order; when the identifiers are bound in the enclosing scope the
\* block's value is the value the expansion of expr has in that scope.
\* [x, y] (+ x y) with x = 10 and y = 5 is 15.
C13_CaptureWrapper ==
    (MacroDone /\ IsWrapperShape(source.stream)) =>
        LET ids == CaptureNames(source.stream[1].stream)
            body == parse(Tail(source.stream)).expr
        IN  /\ Expanded
            /\ expr = body
            /\ output = Block([i \in 1..Len(ids) |-> LetStmt(ids[i], Ident(ids[i]))],
                              <<to_rust(body)>>)
            /\ (pc = "evaluated" /\ AllBound(ids, HostScope)) =>
                  value = RunHost(to_rust(body))
            /\ (pc = "evaluated"
                   /\ ids = <<"x", "y">>
                   /\ body = Form(Operator("+"), <<Symbol("x"), Symbol("y")>>)) =>
                  value = IntV(15)

C13_Witness ==
    /\ pc = "evaluated"
    /\ source = FromTokens(<<Brackets(<<TIdent("x"), Alone(","), TIdent("y")>>),
                             Parens(<<Alone("+"), TIdent("x"), TIdent("y")>>)>>)
    /\ output = Block(<<LetStmt("x", Ident("x")), LetStmt("y", Ident("y"))>>,
                      <<Bin("+", Bin("+", IntCode(0), Paren(Ident("x"))), Paren(Ident("y")))>>)
    /\ value = IntV(15)

\* C14: an input that is not a bracketed identifier list followed by
\* exactly one expression is parsed whole as one plain expression: nothing
\* is captured, the code handed back is the expansion of that expression
\* alone, and a bracket group becomes a Vector whose expansion is the
\* collection of its children's expansions in source order; when the whole
\* input is no expression the macro fails with a syntax error.
\* [1 2 3 4] gives the collection 1, 2, 3, 4.
C14_WrapperFallback ==
    (MacroDone /\ ~IsWrapperShape(source.stream)) =>
        LET p == ParseComplete(parse(source.stream))
        IN  /\ capture = NoCapture
            /\ p.ok => (Expanded /\ expr = p.expr /\ output = to_rust(p.expr))
            /\ ~p.ok => (pc = "syntax_error" /\ expr = NoExpr /\ code = NoCode)
            /\ (p.ok /\ PeekGroup(source.stream, "[")) =>
                  LET content == source.stream[1].stream
                  IN  /\ expr.tag = "Vector"
                      /\ Len(expr.exprs) = Len(content)
                      /\ \A i \in 1..Len(content) :
                            expr.exprs[i] = parse(<<content[i]>>).expr
                      /\ output = VecMacro([i \in 1..Len(content) |->
                                               to_rust(parse(<<content[i]>>).expr)])
            /\ (pc = "evaluated"
                   /\ source.stream = <<Brackets(<<TInt(1), TInt(2), TInt(3), TInt(4)>>)>>) =>
                  value = VecV(<<IntV(1), IntV(2), IntV(3), IntV(4)>>)

C14_Witness ==
    /\ pc = "evaluated"
    /\ source = FromTokens(<<Brackets(<<TInt(1), TInt(2), TInt(3), TInt(4)>>)>>)
    /\ capture = NoCapture
    /\ expr = Vector(<<IntLit(1), IntLit(2), IntLit(3), IntLit(4)>>)
    /\ value = VecV(<<IntV(1), IntV(2), IntV(3), IntV(4)>>)

\* The token trees the grammar has an alternative for (operator tokens
\* standing alone; the joint ones are the subject of C16).
RECURSIVE InGrammar(_)
InGrammar(t) ==
    CASE t.tt = "Group" ->
           /\ t.delim \in {"(", "["}
           /\ \A i \in 1..Len(t.stream) : InGrammar(t.stream[i])
      [] t.tt = "Punct" -> t.ch \in OperatorTokens /\ ~t.joint
      [] t.tt = "Literal" -> t.kind \in {"int", "float", "str"}
      [] t.tt = "Ident" ->
           \/ t.text \in {"true", "false", "if", "let", "do", "while", "try"}
           \/ t.text \notin HostKeywords

\* The expression the grammar gives a token tree, by the tree's class.
RECURSIVE GrammarTree(_)
GrammarTree(t) ==
    CASE t.tt = "Group" ->
           IF t.delim = "("
           THEN List([i \in 1..Len(t.stream) |-> GrammarTree(t.stream[i])])
           ELSE Vector([i \in 1..Len(t.stream) |-> GrammarTree(t.stream[i])])
      [] t.tt = "Punct" -> Operator(t.ch)
      [] t.tt = "Literal" ->
           IF t.kind = "str" THEN StrLit(t.val) ELSE Literal(t.kind, t.val)
      [] t.tt = "Ident" ->
           IF t.text \in {"true", "false"} THEN BoolLit(t.text = "true")
           ELSE Symbol(t.text)

\* C15: an input that is one token tree of the grammar parses to the tree
\* the grammar gives it: ( .. ) to a List and [ .. ] to a Vector of the
\* parses of the n >= 0 children in source order, nested; an operator token
\* to an Operator; a literal token to a Literal, true and false included;
\* if, let, do, while and try to the Symbol of that name; any other
\* identifier to the Symbol of its text.  A - before a number is an Operator
\* followed by a Literal, so (- 1) written (-1) is the negation of 1.
C15_Grammar ==
    (MacroDone /\ Len(source.stream) = 1 /\ InGrammar(source.stream[1])) =>
        /\ Expanded
        /\ ~capture.wrapped
        /\ expr = GrammarTree(source.stream[1])
        /\ (pc = "evaluated"
               /\ source.stream = <<Parens(<<Alone("-"), TInt(1)>>)>>) =>
              value = IntV(-1)

C15_Witness ==
    /\ pc = "evaluated"
    /\ source = FromTokens(<<Parens(<<Alone("-"), TInt(1)>>)>>)
    /\ expr = List(<<Operator("-"), IntLit(1)>>)
    /\ value = IntV(-1)

\* The source texts >=, <=, == and -> at position i of a stream.
IsCompoundAt(s, i) ==
    /\ i < Len(s)
    /\ s[i].tt = "Punct" /\ s[i].joint
    /\ s[i + 1].tt = "Punct"
    /\ <<s[i].ch, s[i + 1].ch>> \in {<<">", "=">>, <<"<", "=">>, <<"=", "=">>, <<"-", ">">>}

\* C16: where the source has >=, <=, == or ->, the parser does not give
\* the Operator of the first character followed by a node of its own for
\* the second.
C16_NoSplitOperator ==
    (MacroDone /\ Len(source.stream) = 1 /\ source.stream[1].tt = "Group") =>
        \A i \in 1..Len(source.stream[1].stream) :
            IsCompoundAt(source.stream[1].stream, i) =>
                ~(/\ Expanded
                  /\ ~capture.wrapped
                  /\ Len(expr.exprs) > i
                  /\ expr.exprs[i] = Operator(source.stream[1].stream[i].ch)
                  /\ expr.exprs[i + 1] = Operator(source.stream[1].stream[i + 1].ch))

\* The token trees no alternative of the grammar matches, at any depth.
RECURSIVE HasStray(_)
HasStray(stream) ==
    \E i \in 1..Len(stream) :
        CASE stream[i].tt = "Group" ->
               stream[i].delim \notin {"(", "["} \/ HasStray(stream[i].stream)
          [] stream[i].tt = "Punct" -> stream[i].ch \notin OperatorTokens
          [] stream[i].tt = "Ident" ->
               /\ stream[i].text \in HostKeywords
               /\ stream[i].text \notin {"true", "false", "if", "let", "do", "while", "try"}
          [] OTHER -> FALSE

\* The expressions of a tree: one child per token tree of each group.
RECURSIVE OneChildPerTree(_, _)
OneChildPerTree(e, t) ==
    IF e.tag \in {"List", "Vector"}
    THEN /\ t.tt = "Group"
         /\ Len(e.exprs) = Len(t.stream)
         /\ \A i \in 1..Len(e.exprs) : OneChildPerTree(e.exprs[i], t.stream[i])
    ELSE t.tt # "Group"

\* C17: a successful parse consumes the first token tree of the stream and
\* nothing else, its children being the parses of the trees inside, one
\* each; what the macro keeps is that expression.  When a token that
\* matches no alternative stands anywhere in an input parsed as a plain
\* expression, at any depth, the macro fails with a syntax error and no
\* expression, and no code, results.
C17_ParserContract ==
    MacroDone =>
        LET r == parse(source.stream)
        IN  /\ r.ok =>
                  /\ r.rest = Tail(source.stream)
                  /\ OneChildPerTree(r.expr, source.stream[1])
                  /\ (Expanded /\ ~capture.wrapped) => expr = r.expr
            /\ (r.ok /\ r.rest # <<>> /\ ~IsWrapperShape(source.stream)) =>
                  pc = "syntax_error"
            /\ (HasStray(source.stream) /\ ~IsWrapperShape(source.stream)) =>
                  /\ pc = "syntax_error"
                  /\ expr = NoExpr
                  /\ code = NoCode
                  /\ IsError(output)

C17_Witness ==
    /\ pc = "syntax_error"
    /\ source = FromTokens(<<Parens(<<Brackets(<<TIdent("x")>>), Alone(",")>>)>>)
    /\ expr = NoExpr
    /\ code = NoCode

\* The forms C18 speaks of: try with a body and at most one handler, over
\* numeric terms and such try forms.
RECURSIVE IsTryTerm(_)
IsTryTerm(e) ==
    \/ IsNumericTerm(e)
    \/ /\ IsFormOf(e, {"try"})
       /\ Len(ArgsOf(e)) \in {1, 2}
       /\ \A i \in 1..Len(ArgsOf(e)) : IsTryTerm(ArgsOf(e)[i])

\* The value try is to have: the body's when the body completes, otherwise
\* the handler's, and abnormal termination when there is no handler.  A
\* numeric term terminates abnormally when it has no value (it divides by
\* zero).
RECURSIVE TryValue(_)
TryValue(e) ==
    IF IsFormOf(e, {"try"})
    THEN LET first == TryValue(ArgsOf(e)[1])
         IN  IF ~IsErr(first) THEN first
             ELSE IF Len(ArgsOf(e)) >= 2 THEN TryValue(ArgsOf(e)[2])
             ELSE ErrV("panic")
    ELSE LET v == Sem(e, HostScope)
         IN  IF IsInt(v) THEN v ELSE ErrV("panic")

\* C18: the generated code of (try body) and (try body handler) has the
\* body's value when the body completes normally, whatever the handler
\* would do; when the body terminates abnormally it has the handler's value
\* (or the handler's own failure), and terminates abnormally when there is
\* no handler.  (try (try (+ 5 5) 0) (- 0 1)) is 10.
C18_TrySemantics ==
    Evaluated =>
        /\ (IsFormOf(expr, {"try"}) /\ IsTryTerm(expr)) => value = TryValue(expr)
        /\ expr = Form(Symbol("try"),
                       <<Form(Symbol("try"),
                              <<Form(Operator("+"), <<IntLit(5), IntLit(5)>>), IntLit(0)>>),
                         Form(Operator("-"), <<IntLit(0), IntLit(1)>>)>>)
           => value = IntV(10)

C18_Witness ==
    /\ Evaluated
    /\ expr = Form(Symbol("try"),
                   <<Form(Operator("/"), <<IntLit(1), IntLit(0)>>),
                     Form(Operator("+"), <<IntLit(5), IntLit(5)>>)>>)
    /\ value = IntV(10)

\* C19: try takes a body and at most one handler; with three or more
\* arguments it expands to an expansion error.
C19_TryArity ==
    (Expanded /\ IsFormOf(expr, {"try"}) /\ Len(ArgsOf(expr)) >= 3) => IsError(code)

\* C20: (println) expands to an expansion error; (println a) debug-prints
\* the expansion of a; (println a1 .. an), n > 1, debug-prints the tuple of
\* the expansions in source order; the generated code of both yields unit.
C20_Println ==
    (Expanded /\ IsFormOf(expr, {"println"})) =>
        /\ Len(ArgsOf(expr)) = 0 => IsError(code)
        /\ Len(ArgsOf(expr)) = 1 => code = PrintlnCode(to_rust(ArgsOf(expr)[1]))
        /\ Len(ArgsOf(expr)) > 1 =>
              code = PrintlnCode(TupleCode([i \in 1..Len(ArgsOf(expr)) |->
                                              to_rust(ArgsOf(expr)[i])]))
        /\ (Evaluated /\ Len(ArgsOf(expr)) >= 1 /\ ~IsErr(value)) => value = UnitV

\* The value the table gives a loop condition: true, false or
\* a comparison of two numeric terms or symbols.
CondHolds(c) ==
    IF c.tag = "Literal" THEN c = BoolLit(TRUE)
    ELSE LET a == Sem(ArgsOf(c)[1], HostScope)
             b == Sem(ArgsOf(c)[2], HostScope)
         IN  IF HeadText(c) = "<" THEN a.n < b.n ELSE a.n > b.n

\* C21: (do e1..en) evaluates every child in source order and has en's
\* value (a child without a value leaves the form without one), and (do)
\* has the unit value; (while c b) with c false has the unit value without
\* running b, whatever b is.
C21_DoWhile ==
    Evaluated =>
        /\ (IsFormOf(expr, {"do"}) /\ expr \in DoWhileInputs) =>
              LET n == Len(ArgsOf(expr))
              IN  /\ n = 0 => value = UnitV
                  /\ (n > 0 /\ \A i \in 1..n : IsInt(Sem(ArgsOf(expr)[i], HostScope)))
                        => value = Sem(ArgsOf(expr)[n], HostScope)
                  /\ (\E i \in 1..n : ~IsInt(Sem(ArgsOf(expr)[i], HostScope)))
                        => value = ErrV("panic")
        /\ (IsFormOf(expr, {"while"}) /\ expr \in DoWhileInputs
            /\ ~CondHolds(ArgsOf(expr)[1]))
              => value = UnitV

\* The value the table gives a branch: a string, the unit value of a
\* print, or a numeric term's value; a numeric term without a value (a
\* division by zero) terminates abnormally.
BranchValue(e) ==
    IF e.tag = "Literal" /\ e.kind = "str" THEN StrV(e.text)
    ELSE IF IsFormOf(e, {"println"}) THEN UnitV
    ELSE LET v == Sem(e, HostScope)
         IN  IF IsInt(v) THEN v ELSE ErrV("panic")

\* The type of a branch's value; a branch without a value has any type.
SameType(a, b) ==
    LET va == BranchValue(a)
        vb == BranchValue(b)
    IN  IsErr(va) \/ IsErr(vb) \/ va.t = vb.t

\* C22: (if c t e) is one conditional whose condition stands once; it has
\* t's value when c holds and e's otherwise, whatever the other branch
\* would do (a branch that divides by zero does no harm when not taken).
\* (if c t) has no else-branch: where c fails its value is the unit
\* value.  (if (> 5 3) "yes" "no") is "yes" and (if (< 5 3) 10 20) is 20.
C22_If ==
    (Evaluated /\ expr \in IfInputs) =>
        LET c == ArgsOf(expr)[1]
            t == ArgsOf(expr)[2]
        IN  /\ Len(ArgsOf(expr)) = 3 =>
                 LET e == ArgsOf(expr)[3]
                 IN  /\ code = IfElse(Paren(to_rust(c)), Block(<<>>, <<to_rust(t)>>),
                                      Block(<<>>, <<to_rust(e)>>))
                     /\ SameType(t, e) =>
                           value = IF CondHolds(c) THEN BranchValue(t) ELSE BranchValue(e)
            /\ Len(ArgsOf(expr)) = 2 =>
                 /\ code = IfCode(Paren(to_rust(c)), Block(<<>>, <<to_rust(t)>>))
                 /\ (~CondHolds(c) /\ ~IsErr(value)) => value = UnitV
                 /\ (BranchValue(t) = UnitV) => value = UnitV
            /\ expr = Form(Symbol("if"), <<Form(Operator(">"), <<IntLit(5), IntLit(3)>>),
                                           StrLit("yes"), StrLit("no")>>)
                 => value = StrV("yes")
            /\ expr = Form(Symbol("if"), <<Form(Operator("<"), <<IntLit(5), IntLit(3)>>),
                                           IntLit(10), IntLit(20)>>)
                 => value = IntV(20)

\* The condition fails and the branch that is not taken divides by zero.
C22_Witness ==
    /\ Evaluated
    /\ expr = Form(Symbol("if"), <<Form(Operator("<"), <<IntLit(5), IntLit(3)>>),
                                   Form(Operator("/"), <<IntLit(1), IntLit(0)>>),
                                   IntLit(20)>>)
    /\ value = IntV(20)

\* The sequence reference: the elements of a collection term, in order.
RECURSIVE RefSeq(_)
RefSeq(s) ==
    IF IsVector(s) THEN [i \in 1..Len(s.exprs) |-> IntV(s.exprs[i].val)]
    ELSE IF IsFormOf(s, {"cons"})
    THEN <<IntV(ArgsOf(s)[1].val)>> \o RefSeq(ArgsOf(s)[2])
    ELSE LET whole == RefSeq(ArgsOf(s)[1])
         IN  IF whole = <<>> THEN <<>> ELSE Tail(whole)

\* C23: with s any collection (empty, one element, several) and e any
\* element, (cons e s) is e followed by the elements of s, (first (cons e
\* s)) is e, (rest (cons e s)) is s, (count (cons e s)) is (count s) + 1;
\* (first s) of an empty s is the element type's default (0 for the
\* integers) and (rest s) of an empty or one-element s is empty.
\* (cons 0 [1 2 3]) is [0, 1, 2, 3] and (rest [42]) is empty.
C23_Collections ==
    (Evaluated /\ expr \in CollInputs) =>
        /\ expr \in ConsForms \cup CollSeqs => value = VecV(RefSeq(expr))
        /\ (IsFormOf(expr, {"first", "rest", "count"}) /\ expr \notin CollSeqs) =>
              LET s == ArgsOf(expr)[1]
                  f == HeadText(expr)
              IN  /\ (f = "first" /\ s \in ConsForms) => value = IntV(ArgsOf(s)[1].val)
                  /\ (f = "rest" /\ s \in ConsForms) => value = VecV(RefSeq(ArgsOf(s)[2]))
                  /\ (f = "count" /\ s \in ConsForms)
                        => value = IntV(Len(RefSeq(ArgsOf(s)[2])) + 1)
                  /\ f = "count" => value = IntV(Len(RefSeq(s)))
                  /\ (f = "first" /\ RefSeq(s) = <<>>) => value = IntV(0)
                  /\ (f = "first" /\ RefSeq(s) # <<>>) => value = RefSeq(s)[1]
                  /\ (f = "rest" /\ Len(RefSeq(s)) <= 1) => value = VecV(<<>>)
        /\ expr = Form(Symbol("cons"),
                       <<IntLit(0), Vector(<<IntLit(1), IntLit(2), IntLit(3)>>)>>)
              => value = VecV(<<IntV(0), IntV(1), IntV(2), IntV(3)>>)
        /\ expr = Form(Symbol("rest"), <<Vector(<<IntLit(42)>>)>>) => value = VecV(<<>>)

\* rest of a cons onto the empty collection gives the empty collection back.
C23_Witness ==
    /\ Evaluated
    /\ expr = Form(Symbol("rest"), <<Form(Symbol("cons"), <<IntLit(7), Vector(<<>>)>>)>>)
    /\ value = VecV(<<>>)
    /\ code = ExpandRest(ArgsOf(expr))

\* The texts of vals one after the other, nothing between them.
RECURSIVE RefConcat(_)
RefConcat(vals) ==
    IF vals = <<>> THEN "" ELSE ToStringV(Head(vals)).s \o RefConcat(Tail(vals))

\* C24: (str a1..an) holds each argument once, in source order, and is the
\* string forms of the arguments' values one after the other with nothing
\* between them; an argument without a value leaves the form without one;
\* (str) is the empty string, not an error.  (str "Sum: " (+ 2 3)) is
\* "Sum: 5".
C24_Str ==
    (Evaluated /\ expr \in StrInputs) =>
        LET args == ArgsOf(expr)
            vals == [i \in 1..Len(args) |-> BranchValue(args[i])]
        IN  /\ args = <<>> => value = StrV("") /\ ~HasCompileError(code)
            /\ args # <<>> =>
                 /\ code.k = "method" /\ code.recv.k = "array"
                 /\ Len(code.recv.elems) = Len(args)
                 /\ \A i \in 1..Len(args) :
                       code.recv.elems[i].recv = Paren(to_rust(args[i]))
            /\ (\A i \in 1..Len(args) : ~IsErr(vals[i])) => value = StrV(RefConcat(vals))
            /\ (\E i \in 1..Len(args) : IsErr(vals[i])) => value = ErrV("panic")
            /\ args = <<StrLit("Sum: "), Form(Operator("+"), <<IntLit(2), IntLit(3)>>)>>
                 => value = StrV("Sum: 5")
            /\ args = <<StrLit("hello"), StrLit(" "), IntLit(42)>>
                 => value = StrV("hello 42")

C24_Witness ==
    /\ Evaluated
    /\ expr = Form(Symbol("str"), <<StrLit("Sum: "),
                                    Form(Operator("-"), <<IntLit(0), IntLit(7)>>),
                                    StrLit("hello")>>)
    /\ value = StrV("Sum: -7hello")

\* The truth value the table gives a boolean term; a comparison with an
\* operand that has no value terminates abnormally.
BoolRef(b) ==
    IF b.tag = "Literal" THEN BoolV(b = BoolLit(TRUE))
    ELSE LET l == Sem(ArgsOf(b)[1], HostScope)
             r == Sem(ArgsOf(b)[2], HostScope)
         IN  IF ~IsInt(l) \/ ~IsInt(r) THEN ErrV("panic")
             ELSE CASE HeadText(b) = "<" -> BoolV(l.n < r.n)
                    [] HeadText(b) = ">" -> BoolV(l.n > r.n)
                    [] HeadText(b) = "=" -> BoolV(l.n = r.n)

\* The left fold of a short-circuit connective from its identity: stop is
\* the truth value that decides it (false for and, true for or); no term
\* after the first deciding one is looked at.
RECURSIVE RefConnective(_, _)
RefConnective(stop, bs) ==
    IF bs = <<>> THEN BoolV(~stop)
    ELSE LET v == BoolRef(Head(bs))
         IN  IF IsErr(v) THEN v
             ELSE IF v.b = stop THEN v
             ELSE RefConnective(stop, Tail(bs))

\* C25: (and b1..bn), n >= 2, is the conjunction of its arguments folded
\* from the left starting at true, (or b1..bn) their disjunction starting
\* at false; arguments are evaluated left to right and none after the
\* first false of and / first true of or is evaluated; (not b) is the
\* negation of b.
C25_Boolean ==
    (Evaluated /\ expr \in BoolInputs) =>
        LET bs == ArgsOf(expr)
        IN  /\ HeadText(expr) = "and" =>
                 /\ value = RefConnective(FALSE, bs)
                 /\ code = FoldBool("&&", BoolCode(TRUE), ToRustAll(bs))
            /\ HeadText(expr) = "or" =>
                 /\ value = RefConnective(TRUE, bs)
                 /\ code = FoldBool("||", BoolCode(FALSE), ToRustAll(bs))
            /\ HeadText(expr) = "not" =>
                 value = (IF IsErr(BoolRef(bs[1])) THEN BoolRef(bs[1])
                          ELSE BoolV(~BoolRef(bs[1]).b))

\* and stops at its first false: the term after it has no value and is
\* never evaluated.
C25_Witness ==
    /\ Evaluated
    /\ expr = Form(Symbol("and"),
                   <<BoolLit(TRUE), Form(Operator("<"), <<IntLit(5), IntLit(3)>>),
                     Form(Operator("="), <<Form(Operator("/"), <<IntLit(1), IntLit(0)>>),
                                           IntLit(1)>>)>>)
    /\ value = BoolV(FALSE)

\* C26: the source text (with-vars [v1 .. vn] body), parsed and expanded,
\* is the block { let v1 = v1; .. let vn = vn; <body> } of the with-vars
\* table entry, which has body's value where the names are bound, and no
\* plain call.
C26_WithVarsSource ==
    (MacroDone /\ source.stream \in WithVarsSources) =>
        LET form == source.stream[1].stream
            ids == [i \in 1..Len(form[4].stream) |-> form[4].stream[i].text]
            body == parse(<<form[5]>>).expr
        IN  /\ Expanded
            /\ code = Block(SelfLets(ids), <<to_rust(body)>>)
            /\ code.k # "call"
            /\ (pc = "evaluated" /\ AllBound(ids, HostScope)) =>
                  value = RunHost(to_rust(body))

\* C27: the source texts (abs -n) and (abs (- 0 n)) both evaluate to n,
\* and (neg -n) to true, for a positive integer n: (abs -7) is 7 and
\* (neg -5) is true.
C27_NegativeLiteral ==
    (MacroDone /\ source.stream \in NegativeSources /\ pc = "evaluated") =>
        LET form == source.stream[1].stream
            f == form[1].text
            negative == Len(form) = 3 \/ form[2].tt = "Group"
            n == IF Len(form) = 3 THEN form[3].val
                 ELSE IF form[2].tt = "Group" THEN form[2].stream[3].val
                 ELSE form[2].val
        IN  /\ f = "abs" => value = IntV(n)
            /\ (f = "neg" /\ negative) => value = BoolV(TRUE)

\* C28: for every expression tree, whatever its variant, nesting, head and
\* arity, the expander returns: with generated code or with an expansion
\* error, never by aborting.
C28_ExpansionTotal ==
    (source = FromTree /\ pc # "parsed") => (Expanded /\ code # NoCode)

\* The values of the forms ScopeForms(n), which no name n changes: 0
\* before the enclosing [1 2], the rest of the enclosing [1 2], the
\* enclosing 7 as body and as fallback of try, and the unit value of a
\* loop that never runs.
ScopeValues ==
    <<VecV(<<IntV(0), IntV(1), IntV(2)>>), VecV(<<IntV(2)>>), IntV(7), IntV(7),
      UnitV, UnitV>>

\* C29: an argument's free variable is the enclosing scope's binding
\* whatever its name, result, v and val included: in the list argument of
\* cons, the argument of rest, the body and the fallback of try, the
\* condition and the body of while.
C29_NoCapture ==
    Evaluated =>
        \A n \in ScopeNames : \A i \in DOMAIN ScopeValues :
            expr = ScopeForms(n)[i] => value = ScopeValues[i]

\* How often the fragment frag stands in the code c.
RECURSIVE CountIn(_, _)
RECURSIVE CountInAll(_, _)
CountInAll(frag, cs) ==
    IF cs = <<>> THEN 0 ELSE CountIn(frag, Head(cs)) + CountInAll(frag, Tail(cs))

CountIn(frag, c) == (IF c = frag THEN 1 ELSE 0) + CountInAll(frag, Children(c))

\* The arguments of a form that are expressions to expand: all but the
\* binding vector of let and with-vars, the name and parameter vector of
\* defn and the variable of dotimes.
ExprPositions(e) ==
    LET n == Len(ArgsOf(e))
    IN  CASE HeadText(e) \in {"let", "with-vars", "dotimes"} -> 2..n
          [] HeadText(e) = "defn" -> 3..n
          [] OTHER -> 1..n

\* C30: where a form of the table expands to code and not to an expansion
\* error, the expansion of each of its argument expressions stands in that
\* code as often as the argument is written, so none is discarded;
\* (let [a 1] a (+ a 1)) evaluates to the value of its last expression, 2.
C30_AllArgsUsed ==
    (Expanded /\ source = FromTree /\ IsForm(expr) /\ HeadText(expr) \in TableNames
     /\ ~HasCompileError(code)) =>
        /\ \A i \in ExprPositions(expr) :
              CountIn(to_rust(ArgsOf(expr)[i]), code)
                 >= Cardinality({j \in ExprPositions(expr) : ArgsOf(expr)[j] = ArgsOf(expr)[i]})
        /\ (Evaluated
            /\ expr = Form(Symbol("let"),
                           <<Vector(<<Symbol("a"), IntLit(1)>>), Symbol("a"),
                             Form(Operator("+"), <<Symbol("a"), IntLit(1)>>)>>))
              => value = IntV(2)
====
